---- MODULE Spec2Model ----
(***************************************************************************)
(* CampusReads: the borrow ledger (borrowed_books), the catalog (books),   *)
(* the student and librarian handlers that write them, and the             *)
(* collaborative Recommendations component that reads them; the reminder   *)
(* job checkAndSendReminders and the Login component.                      *)
(*                                                                         *)
(* An ISBN is a sequence of one-character strings, so that normalizeISBN   *)
(* and the key order of a JavaScript object can be computed on it.  An     *)
(* e-mail address is a string; "" is the missing identity.                 *)
(* A handler is split at its awaits: one action per store request.         *)
(***************************************************************************)
EXTENDS Integers, Sequences, FiniteSets, TLC

\* ------------------------------------------------------------------ bounds
MaxLedger == 3          \* rows of borrowed_books when the recommendations are computed
MaxRows == 2            \* rows of borrowed_books when the dashboards' handlers interleave
MaxInFlight == 2        \* handlers of the dashboards running at the same time
MaxBorrowable == 2      \* the students type/scan the ISBN of catalog rows 1..MaxBorrowable
MaxAdded == 1           \* books the librarian adds
MaxCopies == 2          \* copies of the second catalog row: 1..MaxCopies
MaxPicked == 8          \* records of the deck in a ledger the ranking is computed on
MaxElapsed == 1         \* ticks of the clock between two new Date() of one function
MaxLoans == 2           \* rows of borrowed_books when the reminders are prepared
MaxListed == 1          \* rows of borrowed_books when the reminders tab is open
MaxPassed == 1          \* ticks of the clock while the reminders tab is open
MaxLogins == 2          \* invocations of handleLogin running at the same time

\* ------------------------------------------------------- program constants
MaxRecs == 5            \* .slice(0, 5)
UserBooksLimit == 10    \* .limit(10) of the userBooks query
TierLimit == 20         \* .limit(20) of the category, author and popular queries
DebugLimit == 10        \* .limit(10) of the borrowBook debugging query
ArrayIndexLimit == <<"4", "2", "9", "4", "9", "6", "7", "2", "9", "5">>
                        \* 2^32 - 1 in digits: keys below it are array indices of a JS object

Users == {"u1", "u2"}
NoEmail == ""

\* ------------------------------------------------------------ sequences
Min(a, b) == IF a < b THEN a ELSE b

Range(s) == {s[i] : i \in 1..Len(s)}

\* Array.prototype.slice(0, n) and the .limit(n) of a query
Slice(s, n) == SubSeq(s, 1, Min(n, Len(s)))

\* Array.prototype.includes
Includes(s, x) == \E i \in 1..Len(s) : s[i] = x

\* Array.from(new Set(s)): the distinct elements in order of first occurrence
RECURSIVE Distinct(_)
Distinct(s) ==
  IF s = <<>> THEN <<>>
  ELSE LET d == Distinct(SubSeq(s, 1, Len(s) - 1))
           x == s[Len(s)]
       IN IF Includes(d, x) THEN d ELSE Append(d, x)

\* ------------------------------------------------------------------ ISBNs
Digits == {"0", "1", "2", "3", "4", "5", "6", "7", "8", "9"}

DigitVal(c) ==
  CASE c = "0" -> 0 [] c = "1" -> 1 [] c = "2" -> 2 [] c = "3" -> 3 [] c = "4" -> 4
    [] c = "5" -> 5 [] c = "6" -> 6 [] c = "7" -> 7 [] c = "8" -> 8 [] OTHER -> 9

RECURSIVE NumVal(_)
NumVal(s) == IF s = <<>> THEN 0 ELSE 10 * NumVal(SubSeq(s, 1, Len(s) - 1)) + DigitVal(s[Len(s)])

\* String.prototype.trim
RECURSIVE TrimLeft(_)
TrimLeft(s) == IF s # <<>> /\ Head(s) = " " THEN TrimLeft(Tail(s)) ELSE s

RECURSIVE TrimRight(_)
TrimRight(s) == IF s # <<>> /\ s[Len(s)] = " " THEN TrimRight(SubSeq(s, 1, Len(s) - 1)) ELSE s

Trim(s) == TrimRight(TrimLeft(s))

IsDashOrSpace(c) == c \in {"-", " "}

NotDashOrSpace(c) == ~IsDashOrSpace(c)

\* isbn.trim().replace(/[-\s]/g, '')
normalizeISBN(isbn) == SelectSeq(Trim(isbn), NotDashOrSpace)

\* x < y for canonical decimal numerals (no leading zero) of any length
NumLess(x, y) ==
  \/ Len(x) < Len(y)
  \/ /\ Len(x) = Len(y)
     /\ \E i \in 1..Len(x) :
          /\ DigitVal(x[i]) < DigitVal(y[i])
          /\ \A j \in 1..(i - 1) : x[j] = y[j]

\* A property key that is a canonical array index: Object.entries lists such
\* keys first, in ascending numeric order, before the other keys.
IsArrayIndex(k) ==
  /\ k # <<>>
  /\ \A i \in 1..Len(k) : k[i] \in Digits
  /\ (Len(k) > 1 => k[1] # "0")
  /\ NumLess(k, ArrayIndexLimit)

\* ------------------------------------------------------------ the stores
VARIABLES
  books,            \* the books table, in row order: the catalog
  borrowed_books    \* the borrowed_books table; a record's id is its position

\* ------------------------------------------- the Recommendations component
VARIABLES
  mounted,          \* the Recommendations tab is open
  userEmail,        \* the userEmail prop
  recommendations,  \* useState<Book[]>([])
  loading,          \* useState(true)
  pc,               \* the request loadRecommendations is waiting for; "done" when it
                    \* has returned and the component is about to render; else "idle"
  lr,               \* the locals of loadRecommendations
  ph,               \* the locals of loadPlaceholderRecommendations
  run               \* what the running invocation did: requests issued and failed

\* ---------------------------------------------- the dashboards' sessions
VARIABLES
  hpc,                 \* per session: the request its running handler waits for, "alert"
                       \* while its alert() is open, or "idle"
  frame,               \* per session: the locals of the running handler
  alert,               \* per session: the text of the open alert(), or "none"
  myBooks,             \* per student: the ids of the records listed in My Books
  recentTransactions   \* the ids the librarian's Transactions tab offers "Mark as Returned" for

\* ------------------------------------------------- the clock and the job
VARIABLES
  now,              \* what new Date() returns: ticks since the first of the month, 00:00
  job               \* the locals of checkAndSendReminders and the request it waits for

\* ------------------------------------------------------ the Login component
VARIABLES
  selectedRole,     \* useState<'student' | 'librarian' | null>(null)
  role,             \* useState<string|null>(null)
  localStorage,     \* the keys userEmail, userRole and userId of window.localStorage
  session,          \* the id of the user the Supabase client is signed in as
  login             \* per invocation of handleLogin: its closure, locals and position

\* ------------------------------------------------------- the EmailService
VARIABLES
  emailService,     \* the fields of the EmailService instance
  emailSettings,    \* the key emailSettings of window.localStorage
  mail              \* sendEmail: the request it waits for, the routes tried, its result

\* ------------------------------------------ the librarian's reminders tab
VARIABLES
  lib               \* overdueBooks, dueSoonBooks, sendingEmails, and the position and
                    \* locals of sendReminders and sendIndividualReminder

\* ---------------------------------------------------------------- history
VARIABLES
  earlier           \* per borrower: the answers and the list of the last invocation of
                    \* loadRecommendations that was rendered

storeVars == <<books, borrowed_books>>
recVars == <<mounted, userEmail, recommendations, loading, pc, lr, ph, run>>
sessVars == <<hpc, frame, alert, myBooks, recentTransactions>>
clockVars == <<now, job>>
loginVars == <<selectedRole, role, localStorage, session, login>>
mailVars == <<emailService, emailSettings, mail>>
otherVars == <<now, job, selectedRole, role, localStorage, session, login, earlier,
               emailService, emailSettings, mail, lib>>
vars == <<books, borrowed_books, mounted, userEmail, recommendations, loading, pc, lr, ph, run,
          hpc, frame, alert, myBooks, recentTransactions,
          now, job, selectedRole, role, localStorage, session, login, earlier,
          emailService, emailSettings, mail, lib>>

Librarian == "librarian"
Sessions == Users \cup {Librarian}

\* An outcome of a request to the store: data, an error value, or a rejected promise
Outcomes == {"ok", "error", "throw"}

\* ---------------------------------------------------------------- rows
Book(isbn, category, author, total) ==
  [isbn |-> isbn, category |-> category, author |-> author,
   total_copies |-> total, available_copies |-> total]

\* .select('id, isbn, name, author, total_copies, available_copies')
BookView(b) ==
  [isbn |-> b.isbn, author |-> b.author,
   total_copies |-> b.total_copies, available_copies |-> b.available_copies]

Isbns(rows) == [i \in 1..Len(rows) |-> rows[i].isbn]

\* ------------------------------------------------------------ the calendar
\* A Date is a number of ticks since 00:00 local time on the first of a month
\* of MonthDays days; the month after it is longer than any date that is set.
TicksPerDay == 2
MonthDays == 30

\* The days since the first of the first month
Day(t) == t \div TicksPerDay

\* 00:00 on the first of the month of t
MonthStart(t) == IF Day(t) < MonthDays THEN 0 ELSE MonthDays * TicksPerDay

\* Date.prototype.getDate(): the day of the month, from 1
GetDate(t) == Day(t) - Day(MonthStart(t)) + 1

\* Date.prototype.setDate(n): day n of the month of t at the time of day of t;
\* an n past the end of the month runs on into the next
SetDate(t, n) == MonthStart(t) + (n - 1) * TicksPerDay + (t % TicksPerDay)

\* const dueDate = new Date(); dueDate.setDate(dueDate.getDate() + 14)
DueDate(t) == SetDate(t, GetDate(t) + 14)

\* Math.floor(ticks / day) and Math.ceil(ticks / day)
FloorDays(ticks) == ticks \div TicksPerDay
CeilDays(ticks) == -((-ticks) \div TicksPerDay)

\* A row of borrowed_books
Loan(email, isbn, returned, due) ==
  [user_email |-> email, book_isbn |-> isbn, returned |-> returned, due_date |-> due]

\* A stable sort: x goes before y when Before(x, y), otherwise the order of s is kept.
StableSort(s, Before(_, _)) ==
  LET n == Len(s)
      pos(i) == 1 + Cardinality({j \in 1..n :
                       j # i /\ (Before(s[j], s[i]) \/ (~Before(s[i], s[j]) /\ j < i))})
  IN [p \in 1..n |-> s[CHOOSE i \in 1..n : pos(i) = p]]

\* ------------------------------------------- the queries of the component
\* borrowed_books: .eq('user_email', userEmail).eq('returned', false)
QueryUserBorrows(email) ==
  SelectSeq(borrowed_books, LAMBDA r : r.user_email = email /\ ~r.returned)

\* QuerySimilarBorrows without .eq('returned', false)
QuerySimilarBorrowsReturned(isbns, email) ==
  SelectSeq(borrowed_books, LAMBDA r : Includes(isbns, r.book_isbn) /\ r.user_email # email)

\* borrowed_books: .in('book_isbn', isbns).neq('user_email', userEmail).eq('returned', false)
QuerySimilarBorrows(isbns, email) ==
  SelectSeq(borrowed_books,
            LAMBDA r : Includes(isbns, r.book_isbn) /\ r.user_email # email /\ ~r.returned)

\* QueryOtherUserBorrows narrowed to the books the user has borrowed, as in step 2
QueryOtherUserBorrowsOverlap(emails) ==
  SelectSeq(borrowed_books,
            LAMBDA r : /\ Includes(emails, r.user_email) /\ ~r.returned
                       /\ Includes(lr.userBorrowedISBNs, r.book_isbn))

\* borrowed_books: .in('user_email', emails).eq('returned', false)
QueryOtherUserBorrows(emails) ==
  SelectSeq(borrowed_books, LAMBDA r : Includes(emails, r.user_email) /\ ~r.returned)

\* QueryRecommendedBooks without .gt('available_copies', 0)
QueryRecommendedBooksAnyCopies(isbns) ==
  SelectSeq(books, LAMBDA b : Includes(isbns, b.isbn))

\* books: .in('isbn', isbns).gt('available_copies', 0)
QueryRecommendedBooks(isbns) ==
  SelectSeq(books, LAMBDA b : Includes(isbns, b.isbn) /\ b.available_copies > 0)

\* books: .select('category, author').in('isbn', isbns).limit(10)
QueryUserBooks(isbns) ==
  Slice(SelectSeq(books, LAMBDA b : Includes(isbns, b.isbn)), UserBooksLimit)

\* books: .in('category', categories).gt('available_copies', 0).limit(20)
QueryCategoryBooks(categories) ==
  Slice(SelectSeq(books, LAMBDA b : Includes(categories, b.category) /\ b.available_copies > 0),
        TierLimit)

\* books: .in('author', authors).gt('available_copies', 0).limit(20)
QueryAuthorBooks(authors) ==
  Slice(SelectSeq(books, LAMBDA b : Includes(authors, b.author) /\ b.available_copies > 0),
        TierLimit)

\* QueryPopularBooks without .order('available_copies', { ascending: false })
QueryPopularBooksUnordered ==
  Slice(SelectSeq(books, LAMBDA b : b.available_copies > 0), TierLimit)

\* books: .gt('available_copies', 0).order('available_copies', { ascending: false }).limit(20)
QueryPopularBooks ==
  Slice(StableSort(SelectSeq(books, LAMBDA b : b.available_copies > 0),
                   LAMBDA x, y : x.available_copies > y.available_copies),
        TierLimit)

\* ------------------------------------------------ the peer ranking (steps 3-6)
\* Array.from(new Set(similarBorrows.map(b => b.user_email)))
OtherUserEmails(similarBorrows) ==
  Distinct([i \in 1..Len(similarBorrows) |-> similarBorrows[i].user_email])

\* The keys of isbnFrequency in the order the forEach creates them: the ISBNs of
\* otherUserBorrows that the user has not borrowed.
FrequencyKeys(otherUserBorrows, userBorrowedISBNs) ==
  Distinct(SelectSeq([i \in 1..Len(otherUserBorrows) |-> otherUserBorrows[i].book_isbn],
                     LAMBDA k : ~Includes(userBorrowedISBNs, k)))

\* Frequency counting the borrowers that hold the book instead of their records
FrequencyOfHolders(otherUserBorrows, isbn) ==
  Cardinality({otherUserBorrows[i].user_email :
                 i \in {k \in 1..Len(otherUserBorrows) : otherUserBorrows[k].book_isbn = isbn}})

\* isbnFrequency[isbn]: one per record of otherUserBorrows
Frequency(otherUserBorrows, isbn) ==
  Cardinality({i \in 1..Len(otherUserBorrows) : otherUserBorrows[i].book_isbn = isbn})

\* Object.entries(isbnFrequency): array-index keys ascending, then the rest as created
ObjectEntries(keys, Value(_)) ==
  LET indexKeys == StableSort(SelectSeq(keys, IsArrayIndex),
                              LAMBDA x, y : NumLess(x, y))
      otherKeys == SelectSeq(keys, LAMBDA k : ~IsArrayIndex(k))
      ordered == indexKeys \o otherKeys
  IN [i \in 1..Len(ordered) |-> [isbn |-> ordered[i], n |-> Value(ordered[i])]]

\* .sort((a, b) => b[1] - a[1]).map(([isbn]) => isbn).slice(0, 5)
SortedISBNs(otherUserBorrows, userBorrowedISBNs) ==
  LET entries == ObjectEntries(FrequencyKeys(otherUserBorrows, userBorrowedISBNs),
                               LAMBDA k : Frequency(otherUserBorrows, k))
  IN Slice(Isbns(StableSort(entries, LAMBDA x, y : x.n > y.n)), MaxRecs)

\* SortedBooks in the order the catalog read returned the rows
SortedBooksAsFetched(sortedISBNs, recommendedBooks) ==
  LET found == SelectSeq(recommendedBooks, LAMBDA b : Includes(sortedISBNs, b.isbn))
  IN [i \in 1..Len(found) |-> BookView(found[i])]

\* sortedISBNs.map(isbn => recommendedBooks.find(...)).filter(book => book !== undefined)
SortedBooks(sortedISBNs, recommendedBooks) ==
  LET found == SelectSeq(sortedISBNs, LAMBDA k : Includes(Isbns(recommendedBooks), k))
  IN [i \in 1..Len(found) |->
        BookView(recommendedBooks[CHOOSE j \in 1..Len(recommendedBooks) :
                                    recommendedBooks[j].isbn = found[i]
                                    /\ \A l \in 1..(j - 1) : recommendedBooks[l].isbn # found[i]])]

\* FillUp without .slice(0, 5)
FillUpUncut(sortedBooks, placeholderRecs) == sortedBooks \o placeholderRecs

\* [...sortedBooks, ...placeholderRecs].slice(0, 5)
FillUp(sortedBooks, placeholderRecs) == Slice(sortedBooks \o placeholderRecs, MaxRecs)

\* --------------------------------------------- the fallback tiers' helpers
\* Array.from(new Set(userBooks.map(b => b.category).filter(Boolean)))
Categories(userBooks) ==
  Distinct(SelectSeq([i \in 1..Len(userBooks) |-> userBooks[i].category], LAMBDA c : c # ""))

\* Array.from(new Set(userBooks.map(b => b.author).filter(Boolean)))
Authors(userBooks) ==
  Distinct(SelectSeq([i \in 1..Len(userBooks) |-> userBooks[i].author], LAMBDA a : a # ""))

\* new Set([...userBorrowedISBNs, ...excludeISBNs])
ExcludeSet(userBorrowedISBNs, excludeISBNs) == Range(userBorrowedISBNs) \cup Range(excludeISBNs)

\* rows.filter(book => !excludeSet.has(book.isbn))
Filtered(rows, excludeSet) == SelectSeq(rows, LAMBDA b : b.isbn \notin excludeSet)

\* filtered.slice(0, 5) as Book[]
TierResult(filtered) ==
  LET top == Slice(filtered, MaxRecs) IN [i \in 1..Len(top) |-> BookView(top[i])]

\* ------------------------------------------------ loadRecommendations
lrInit == [userBorrowedISBNs |-> <<>>, otherUserEmails |-> <<>>, sortedISBNs |-> <<>>]

phInit == [userBorrowedISBNs |-> <<>>, excludeISBNs |-> <<>>, sortedBooks |-> <<>>,
           categories |-> <<>>, authors |-> <<>>, caller |-> "none"]

runInit == [queries |-> 0, okReads |-> 0, failedRead |-> "none", failedKind |-> "none",
            phFailed |-> FALSE, wrote |-> FALSE, answers |-> <<>>]

\* The requests of loadRecommendations itself and those of loadPlaceholderRecommendations
MainReads == {"userBorrows", "similarBorrows", "otherUserBorrows", "recommendedBooks"}
TierReads == {"userBooks", "categoryBooks", "authorBooks", "popularBooks"}

\* The record of the invocation after the request `read` was answered with outcome o
Logged(read, o) ==
  [run EXCEPT !.queries = @ + 1,
              !.okReads = IF o = "ok" THEN @ + 1 ELSE @,
              !.failedRead = IF o # "ok" /\ read \in MainReads THEN read ELSE @,
              !.failedKind = IF o # "ok" /\ read \in MainReads THEN o ELSE @,
              !.phFailed = @ \/ (o # "ok" /\ read \in TierReads),
              !.answers = Append(@, o)]

\* The invocation ends: the state it leaves in the component
Return(newRecommendations, newLoading, wrote, r) ==
  /\ recommendations' = newRecommendations
  /\ loading' = newLoading
  /\ pc' = "done"
  /\ lr' = lrInit
  /\ ph' = phInit
  /\ run' = [r EXCEPT !.wrote = wrote]

\* if (error) { console.error(...); setLoading(false); return }
ErrorReturn(r) == Return(recommendations, FALSE, FALSE, r)

\* CallPlaceholder that passes no excludeISBNs
CallPlaceholderNoExclude(userBorrowedISBNs, sortedBooks, caller, r) ==
  /\ ph' = [userBorrowedISBNs |-> userBorrowedISBNs, excludeISBNs |-> <<>>,
            sortedBooks |-> sortedBooks, categories |-> <<>>, authors |-> <<>>,
            caller |-> caller]
  /\ pc' = IF Len(userBorrowedISBNs) > 0 THEN "userBooks" ELSE "popularBooks"
  /\ run' = r
  /\ UNCHANGED <<recommendations, loading>>

\* await loadPlaceholderRecommendations(userBorrowedISBNs, excludeISBNs), up to its
\* first request; sortedBooks is what the caller puts in front of the result.
CallPlaceholder(userBorrowedISBNs, sortedBooks, caller, r) ==
  /\ ph' = [userBorrowedISBNs |-> userBorrowedISBNs, excludeISBNs |-> Isbns(sortedBooks),
            sortedBooks |-> sortedBooks, categories |-> <<>>, authors |-> <<>>,
            caller |-> caller]
  /\ pc' = IF Len(userBorrowedISBNs) > 0 THEN "userBooks" ELSE "popularBooks"
  /\ run' = r
  /\ UNCHANGED <<recommendations, loading>>

\* catch (error) { ... await loadPlaceholderRecommendations([]) ... }
Catch(r) == CallPlaceholder(<<>>, <<>>, "catch", r) /\ lr' = lr

\* What the caller does with the result of loadPlaceholderRecommendations
PlaceholderReturn(placeholderRecs, r) ==
  IF ph.caller = "fill"
  THEN Return(FillUp(ph.sortedBooks, placeholderRecs), loading, TRUE, r)
  ELSE Return(placeholderRecs, FALSE, TRUE, r)

\* The effect of useEffect(..., [userEmail]) for the prop e, up to the first request
Effect(e) ==
  /\ userEmail' = e
  /\ lr' = lrInit
  /\ ph' = phInit
  /\ run' = runInit
  /\ IF e # NoEmail
     THEN loading' = TRUE /\ pc' = "userBorrows"
     ELSE loading' = FALSE /\ pc' = "done"

\* No handler of a dashboard is running
Quiet == \A s \in Sessions : hpc[s] = "idle"

\* The Recommendations tab is opened: the component is constructed and its effect runs
Mount(e) ==
  /\ ~mounted
  /\ mounted' = TRUE
  /\ recommendations' = <<>>
  /\ Effect(e)
  /\ UNCHANGED <<storeVars, sessVars, otherVars>>

\* A render passes another userEmail (localStorage changed): the effect runs again
SetUserEmail(e) ==
  /\ mounted
  /\ pc = "idle"
  /\ e # userEmail
  /\ UNCHANGED <<mounted, recommendations>>
  /\ Effect(e)
  /\ UNCHANGED <<storeVars, sessVars, otherVars>>

\* The tab is left: the component and its state are discarded
Unmount ==
  /\ mounted
  /\ pc = "idle"
  /\ mounted' = FALSE
  /\ userEmail' = NoEmail
  /\ recommendations' = <<>>
  /\ loading' = TRUE
  /\ UNCHANGED <<pc, lr, ph, run, storeVars, sessVars, otherVars>>

\* The component renders what the invocation left: the loading text, the empty
\* text or the list
Render ==
  /\ pc = "done"
  /\ pc' = "idle"
  /\ run' = runInit
  /\ UNCHANGED <<mounted, userEmail, recommendations, loading, lr, ph, storeVars, sessVars, otherVars>>

\* Render, with the invocation that is rendered noted for its borrower
RenderAndRecord ==
  /\ pc = "done"
  /\ pc' = "idle"
  /\ run' = runInit
  /\ earlier' = [u \in DOMAIN earlier \cup {userEmail} |->
                   IF u = userEmail
                   THEN [answers |-> run.answers, list |-> recommendations]
                   ELSE earlier[u]]
  /\ UNCHANGED <<mounted, userEmail, recommendations, loading, lr, ph, storeVars, sessVars,
                 clockVars, loginVars, mailVars, lib>>

\* Step 1: the user's own active borrows
AwaitUserBorrows(o) ==
  /\ pc = "userBorrows"
  /\ LET r == Logged("userBorrows", o)
         userBorrows == QueryUserBorrows(userEmail)
     IN CASE o = "throw" -> Catch(r)
          [] o = "error" -> ErrorReturn(r)
          [] OTHER ->
             IF Len(userBorrows) = 0
             THEN CallPlaceholder(<<>>, <<>>, "set", r) /\ lr' = lr
             ELSE /\ lr' = [lr EXCEPT !.userBorrowedISBNs =
                              [i \in 1..Len(userBorrows) |-> userBorrows[i].book_isbn]]
                  /\ pc' = "similarBorrows"
                  /\ run' = r
                  /\ UNCHANGED <<recommendations, loading, ph>>
  /\ UNCHANGED <<mounted, userEmail, storeVars, sessVars, otherVars>>

\* Step 2: the other users who borrowed the same books
AwaitSimilarBorrows(o) ==
  /\ pc = "similarBorrows"
  /\ LET r == Logged("similarBorrows", o)
         similarBorrows == QuerySimilarBorrows(lr.userBorrowedISBNs, userEmail)
     IN CASE o = "throw" -> Catch(r)
          [] o = "error" -> ErrorReturn(r)
          [] OTHER ->
             IF Len(similarBorrows) = 0
             THEN CallPlaceholder(lr.userBorrowedISBNs, <<>>, "set", r) /\ lr' = lr
             ELSE /\ lr' = [lr EXCEPT !.otherUserEmails = OtherUserEmails(similarBorrows)]
                  /\ pc' = "otherUserBorrows"
                  /\ run' = r
                  /\ UNCHANGED <<recommendations, loading, ph>>
  /\ UNCHANGED <<mounted, userEmail, storeVars, sessVars, otherVars>>

\* Steps 4-6: what those users borrowed, counted and ranked
AwaitOtherUserBorrows(o) ==
  /\ pc = "otherUserBorrows"
  /\ LET r == Logged("otherUserBorrows", o)
         otherUserBorrows == QueryOtherUserBorrows(lr.otherUserEmails)
         sortedISBNs == SortedISBNs(otherUserBorrows, lr.userBorrowedISBNs)
     IN CASE o = "throw" -> Catch(r)
          [] o = "error" -> ErrorReturn(r)
          [] OTHER ->
             IF Len(otherUserBorrows) = 0 \/ Len(sortedISBNs) = 0
             THEN CallPlaceholder(lr.userBorrowedISBNs, <<>>, "set", r) /\ lr' = lr
             ELSE /\ lr' = [lr EXCEPT !.sortedISBNs = sortedISBNs]
                  /\ pc' = "recommendedBooks"
                  /\ run' = r
                  /\ UNCHANGED <<recommendations, loading, ph>>
  /\ UNCHANGED <<mounted, userEmail, storeVars, sessVars, otherVars>>

\* AwaitRecommendedBooks that sets the empty list when no ranked book has a copy
AwaitRecommendedBooksNoFallback(o) ==
  /\ pc = "recommendedBooks"
  /\ LET r == Logged("recommendedBooks", o)
         recommendedBooks == QueryRecommendedBooks(lr.sortedISBNs)
         sortedBooks == SortedBooks(lr.sortedISBNs, recommendedBooks)
     IN CASE o = "throw" -> Catch(r)
          [] o = "error" -> CallPlaceholder(lr.userBorrowedISBNs, <<>>, "set", r) /\ lr' = lr
          [] OTHER ->
             IF Len(recommendedBooks) = 0
             THEN Return(<<>>, FALSE, TRUE, r)
             ELSE IF Len(sortedBooks) < MaxRecs
                  THEN CallPlaceholder(lr.userBorrowedISBNs, sortedBooks, "fill", r) /\ lr' = lr
                  ELSE Return(sortedBooks, loading, TRUE, r)
  /\ UNCHANGED <<mounted, userEmail, storeVars, sessVars, otherVars>>

\* Step 7: the catalog rows of the ranked ISBNs, and the filling up
AwaitRecommendedBooks(o) ==
  /\ pc = "recommendedBooks"
  /\ LET r == Logged("recommendedBooks", o)
         recommendedBooks == QueryRecommendedBooks(lr.sortedISBNs)
         sortedBooks == SortedBooks(lr.sortedISBNs, recommendedBooks)
     IN CASE o = "throw" -> Catch(r)
          [] o = "error" -> CallPlaceholder(lr.userBorrowedISBNs, <<>>, "set", r) /\ lr' = lr
          [] OTHER ->
             IF Len(recommendedBooks) = 0
             THEN CallPlaceholder(lr.userBorrowedISBNs, <<>>, "set", r) /\ lr' = lr
             ELSE IF Len(sortedBooks) < MaxRecs
                  THEN CallPlaceholder(lr.userBorrowedISBNs, sortedBooks, "fill", r) /\ lr' = lr
                  ELSE Return(sortedBooks, loading, TRUE, r)
  /\ UNCHANGED <<mounted, userEmail, storeVars, sessVars, otherVars>>

\* ------------------------------------------- loadPlaceholderRecommendations
\* Moves on inside loadPlaceholderRecommendations to the request `next`
NextTier(next, categories, authors, r) ==
  /\ pc' = next
  /\ ph' = [ph EXCEPT !.categories = categories, !.authors = authors]
  /\ run' = r
  /\ UNCHANGED <<recommendations, loading, lr>>

\* AwaitUserBooks that tries the authors before the categories
AwaitUserBooksAuthorsFirst(o) ==
  /\ pc = "userBooks"
  /\ LET r == Logged("userBooks", o)
         userBooks == QueryUserBooks(ph.userBorrowedISBNs)
         categories == Categories(userBooks)
         authors == Authors(userBooks)
     IN CASE o = "throw" -> PlaceholderReturn(<<>>, r)
          [] o = "ok" /\ Len(userBooks) > 0 ->
             IF Len(authors) > 0 THEN NextTier("authorBooks", categories, authors, r)
             ELSE IF Len(categories) > 0 THEN NextTier("categoryBooks", categories, authors, r)
             ELSE NextTier("popularBooks", categories, authors, r)
          [] OTHER -> NextTier("popularBooks", <<>>, <<>>, r)
  /\ UNCHANGED <<mounted, userEmail, storeVars, sessVars, otherVars>>

\* The category and author of the user's borrowed books
AwaitUserBooks(o) ==
  /\ pc = "userBooks"
  /\ LET r == Logged("userBooks", o)
         userBooks == QueryUserBooks(ph.userBorrowedISBNs)
         categories == Categories(userBooks)
         authors == Authors(userBooks)
     IN CASE o = "throw" -> PlaceholderReturn(<<>>, r)
          [] o = "ok" /\ Len(userBooks) > 0 ->
             IF Len(categories) > 0 THEN NextTier("categoryBooks", categories, authors, r)
             ELSE IF Len(authors) > 0 THEN NextTier("authorBooks", categories, authors, r)
             ELSE NextTier("popularBooks", categories, authors, r)
          [] OTHER -> NextTier("popularBooks", <<>>, <<>>, r)
  /\ UNCHANGED <<mounted, userEmail, storeVars, sessVars, otherVars>>

\* Try to find books by same category
AwaitCategoryBooks(o) ==
  /\ pc = "categoryBooks"
  /\ LET r == Logged("categoryBooks", o)
         categoryBooks == QueryCategoryBooks(ph.categories)
         filtered == Filtered(categoryBooks, ExcludeSet(ph.userBorrowedISBNs, ph.excludeISBNs))
     IN CASE o = "throw" -> PlaceholderReturn(<<>>, r)
          [] o = "ok" /\ Len(categoryBooks) > 0 /\ Len(filtered) > 0 ->
             PlaceholderReturn(TierResult(filtered), r)
          [] OTHER ->
             IF Len(ph.authors) > 0 THEN NextTier("authorBooks", ph.categories, ph.authors, r)
             ELSE NextTier("popularBooks", ph.categories, ph.authors, r)
  /\ UNCHANGED <<mounted, userEmail, storeVars, sessVars, otherVars>>

\* Fallback: try to find books by same author
AwaitAuthorBooks(o) ==
  /\ pc = "authorBooks"
  /\ LET r == Logged("authorBooks", o)
         authorBooks == QueryAuthorBooks(ph.authors)
         filtered == Filtered(authorBooks, ExcludeSet(ph.userBorrowedISBNs, ph.excludeISBNs))
     IN CASE o = "throw" -> PlaceholderReturn(<<>>, r)
          [] o = "ok" /\ Len(authorBooks) > 0 /\ Len(filtered) > 0 ->
             PlaceholderReturn(TierResult(filtered), r)
          [] OTHER -> NextTier("popularBooks", ph.categories, ph.authors, r)
  /\ UNCHANGED <<mounted, userEmail, storeVars, sessVars, otherVars>>

\* Final fallback: popular books (most available copies)
AwaitPopularBooks(o) ==
  /\ pc = "popularBooks"
  /\ LET r == Logged("popularBooks", o)
         popularBooks == QueryPopularBooks
         filtered == Filtered(popularBooks, ExcludeSet(ph.userBorrowedISBNs, ph.excludeISBNs))
     IN CASE o = "ok" -> PlaceholderReturn(TierResult(filtered), r)
          [] OTHER -> PlaceholderReturn(<<>>, r)
  /\ UNCHANGED <<mounted, userEmail, storeVars, sessVars, otherVars>>

\* ------------------------------------------------------ the dashboards
\* (alreadyReturned is history, read by no handler: whether the record was
\* marked returned when handleReturnBook was invoked for it)
frameInit == [isbnValue |-> <<>>, normalizedISBN |-> <<>>, book |-> <<>>,
              actualISBN |-> <<>>, recordId |-> 0, bookIsbn |-> <<>>, reload |-> FALSE,
              alreadyReturned |-> FALSE]

\* The requests borrowBook waits for
BorrowPcs == {"exact", "normalized", "allBooks", "insert", "update"}

\* The ids of the unreturned records of a student: what loadMyBooks lists
ActiveIds(table, email) ==
  {i \in 1..Len(table) : table[i].user_email = email /\ ~table[i].returned}

\* The ids of all unreturned records: the rows loadTransactions and loadOverdue
\* show a return button for
UnreturnedIds(table) == {i \in 1..Len(table) : ~table[i].returned}

\* .update({ available_copies: n }).eq('isbn', isbn)
UpdateCopies(table, isbn, n) ==
  [i \in 1..Len(table) |->
     IF table[i].isbn = isbn THEN [table[i] EXCEPT !.available_copies = n] ELSE table[i]]

\* .eq('isbn', isbn).single(): the row as a one-element sequence, <<>> when the
\* request fails or does not match exactly one row
Single(isbn, o) ==
  LET rows == SelectSeq(books, LAMBDA b : b.isbn = isbn)
  IN IF o = "ok" /\ Len(rows) = 1 THEN rows ELSE <<>>

\* The handler of session s calls alert(msg) and then returns, reloading its
\* lists first when reload is set
Done(s, msg, reload) ==
  /\ hpc' = [hpc EXCEPT ![s] = "alert"]
  /\ frame' = [frame EXCEPT ![s] = [frameInit EXCEPT !.reload = reload]]
  /\ alert' = [alert EXCEPT ![s] = msg]

\* The handler of session s returns without an alert
Quit(s) ==
  /\ hpc' = [hpc EXCEPT ![s] = "idle"]
  /\ frame' = [frame EXCEPT ![s] = frameInit]
  /\ UNCHANGED alert

\* catch (error) { console.error(...); alert('An unexpected error occurred: ...') }
Unexpected(s) == Done(s, "unexpected error", FALSE)

\* After the look-up found `book`: the availability check and the insert request
\* (isbnValue and normalizedISBN are not read again: book.isbn is never empty)
Checked(u, book) ==
  IF book.available_copies <= 0
  THEN Done(u, "Book not available!", FALSE)
  ELSE /\ hpc' = [hpc EXCEPT ![u] = "insert"]
       /\ frame' = [frame EXCEPT ![u] = [frameInit EXCEPT
                      !.book = <<book>>, !.actualISBN = book.isbn]]
       /\ UNCHANGED alert

\* borrowBook(isbnToBorrow), with isbn the text of the input field
borrowBook(u, isbnToBorrow, isbn) ==
  /\ hpc[u] = "idle"
  /\ LET isbnValue == IF isbnToBorrow # <<>> THEN isbnToBorrow ELSE Trim(isbn)
     IN IF isbnValue = <<>>
        THEN Done(u, "Please enter or scan an ISBN!", FALSE)
        ELSE /\ hpc' = [hpc EXCEPT ![u] = "exact"]
             /\ frame' = [frame EXCEPT ![u] = [frameInit EXCEPT
                            !.isbnValue = isbnValue,
                            !.normalizedISBN = normalizeISBN(isbnValue)]]
             /\ UNCHANGED alert
  /\ UNCHANGED <<storeVars, recVars, otherVars, myBooks, recentTransactions>>

\* First, let's try exact match
AwaitExact(u, o) ==
  /\ hpc[u] = "exact"
  /\ LET book == Single(frame[u].isbnValue, o)
     IN CASE o = "throw" -> Unexpected(u)
          [] book = <<>> /\ frame[u].normalizedISBN # frame[u].isbnValue ->
             hpc' = [hpc EXCEPT ![u] = "normalized"] /\ UNCHANGED <<frame, alert>>
          [] book = <<>> ->
             hpc' = [hpc EXCEPT ![u] = "allBooks"] /\ UNCHANGED <<frame, alert>>
          [] OTHER -> Checked(u, book[1])
  /\ UNCHANGED <<storeVars, recVars, otherVars, myBooks, recentTransactions>>

\* If exact match fails, try normalized match
AwaitNormalized(u, o) ==
  /\ hpc[u] = "normalized"
  /\ LET book == Single(frame[u].normalizedISBN, o)
     IN CASE o = "throw" -> Unexpected(u)
          [] book = <<>> ->
             hpc' = [hpc EXCEPT ![u] = "allBooks"] /\ UNCHANGED <<frame, alert>>
          [] OTHER -> Checked(u, book[1])
  /\ UNCHANGED <<storeVars, recVars, otherVars, myBooks, recentTransactions>>

\* If still not found: fetch ten books and look for a match by hand
AwaitAllBooks(u, o) ==
  /\ hpc[u] = "allBooks"
  /\ LET allBooks == IF o = "ok" THEN Slice(books, DebugLimit) ELSE <<>>
         matches == SelectSeq(allBooks, LAMBDA b :
                       \/ normalizeISBN(b.isbn) = frame[u].normalizedISBN
                       \/ b.isbn = frame[u].isbnValue
                       \/ b.isbn = frame[u].normalizedISBN)
     IN CASE o = "throw" -> Unexpected(u)
          [] matches = <<>> -> Done(u, "Book not found!", FALSE)
          [] OTHER -> Checked(u, matches[1])
  /\ UNCHANGED <<storeVars, recVars, otherVars, myBooks, recentTransactions>>

\* Add to borrowed_books table
AwaitInsert(u, o) ==
  /\ hpc[u] = "insert"
  /\ CASE o = "throw" -> Unexpected(u) /\ UNCHANGED borrowed_books
       [] o = "error" -> Done(u, "Error borrowing book", FALSE) /\ UNCHANGED borrowed_books
       [] OTHER ->
          /\ borrowed_books' = Append(borrowed_books,
                 Loan(u, frame[u].actualISBN, FALSE, DueDate(now)))
          /\ hpc' = [hpc EXCEPT ![u] = "update"]
          /\ UNCHANGED <<frame, alert>>
  /\ UNCHANGED <<books, recVars, otherVars, myBooks, recentTransactions>>

\* Decrease available copies, then loadMyBooks()
AwaitUpdate(u, o) ==
  /\ hpc[u] = "update"
  /\ CASE o = "throw" -> Unexpected(u) /\ UNCHANGED books
       [] o = "error" ->
          Done(u, "Error updating book availability", FALSE) /\ UNCHANGED books
       [] OTHER ->
          /\ books' = UpdateCopies(books, frame[u].actualISBN,
                                   frame[u].book[1].available_copies - 1)
          /\ Done(u, "borrowed successfully", TRUE)
  /\ UNCHANGED <<borrowed_books, recVars, otherVars, myBooks, recentTransactions>>

\* loadMyBooks(), when the student's dashboard is opened
loadMyBooks(u) ==
  /\ hpc[u] = "idle"
  /\ myBooks' = [myBooks EXCEPT ![u] = ActiveIds(borrowed_books, u)]
  /\ UNCHANGED <<storeVars, recVars, otherVars, hpc, frame, alert, recentTransactions>>

\* loadTransactions() / loadOverdue(), when the librarian opens the tab
loadTransactions ==
  /\ hpc[Librarian] = "idle"
  /\ recentTransactions' = UnreturnedIds(borrowed_books)
  /\ UNCHANGED <<storeVars, recVars, otherVars, hpc, frame, alert, myBooks>>

\* The alert of session s is closed; the handler goes on to reload its lists
\* (loadMyBooks, or loadTransactions and loadOverdue) when it ended well
Dismiss(s) ==
  /\ hpc[s] = "alert"
  /\ hpc' = [hpc EXCEPT ![s] = "idle"]
  /\ frame' = [frame EXCEPT ![s] = frameInit]
  /\ alert' = [alert EXCEPT ![s] = "none"]
  /\ IF ~frame[s].reload THEN UNCHANGED <<myBooks, recentTransactions>>
     ELSE IF s = Librarian
     THEN recentTransactions' = UnreturnedIds(borrowed_books) /\ UNCHANGED myBooks
     ELSE myBooks' = [myBooks EXCEPT ![s] = ActiveIds(borrowed_books, s)]
          /\ UNCHANGED recentTransactions
  /\ UNCHANGED <<storeVars, recVars, otherVars>>

\* The record ids session s shows a return button for
Returnable(s) == IF s = Librarian THEN recentTransactions ELSE myBooks[s]

\* handleReturnBook(recordId, bookIsbn), the student's and the librarian's alike
handleReturnBook(s, recordId) ==
  /\ hpc[s] = "idle"
  /\ recordId \in Returnable(s)
  /\ hpc' = [hpc EXCEPT ![s] = "markReturned"]
  /\ frame' = [frame EXCEPT ![s] = [frameInit EXCEPT
                 !.recordId = recordId, !.bookIsbn = borrowed_books[recordId].book_isbn,
                 !.alreadyReturned = borrowed_books[recordId].returned]]
  /\ UNCHANGED <<storeVars, recVars, otherVars, alert, myBooks, recentTransactions>>

\* Mark as returned
AwaitMarkReturned(s, o) ==
  /\ hpc[s] = "markReturned"
  /\ CASE o = "throw" -> Quit(s) /\ UNCHANGED borrowed_books
       [] o = "error" -> Done(s, "Error returning book", FALSE) /\ UNCHANGED borrowed_books
       [] OTHER ->
          /\ borrowed_books' = [borrowed_books EXCEPT ![frame[s].recordId].returned = TRUE]
          /\ hpc' = [hpc EXCEPT ![s] = "readCopies"]
          /\ UNCHANGED <<frame, alert>>
  /\ UNCHANGED <<books, recVars, otherVars, myBooks, recentTransactions>>

\* Increase available copies: the read
AwaitReadCopies(s, o) ==
  /\ hpc[s] = "readCopies"
  /\ LET book == Single(frame[s].bookIsbn, o)
     IN CASE o = "throw" -> Quit(s)
          [] book = <<>> -> Done(s, "Book returned successfully!", TRUE)
          [] OTHER ->
             /\ hpc' = [hpc EXCEPT ![s] = "writeCopies"]
             /\ frame' = [frame EXCEPT ![s].book = book]
             /\ UNCHANGED alert
  /\ UNCHANGED <<storeVars, recVars, otherVars, myBooks, recentTransactions>>

\* Increase available copies: the write, then the reload of the lists
AwaitWriteCopies(s, o) ==
  /\ hpc[s] = "writeCopies"
  /\ CASE o = "throw" -> Quit(s) /\ UNCHANGED books
       [] o = "error" -> Done(s, "Book returned successfully!", TRUE) /\ UNCHANGED books
       [] OTHER ->
          /\ books' = UpdateCopies(books, frame[s].bookIsbn,
                                   frame[s].book[1].available_copies + 1)
          /\ Done(s, "Book returned successfully!", TRUE)
  /\ UNCHANGED <<borrowed_books, recVars, otherVars, myBooks, recentTransactions>>

\* The length of the leading run of digits of a text
LeadingDigits(body) ==
  IF \E i \in 1..Len(body) : body[i] \notin Digits
  THEN (CHOOSE i \in 1..Len(body) :
          body[i] \notin Digits /\ \A j \in 1..(i - 1) : body[j] \in Digits) - 1
  ELSE Len(body)

\* The text after leading blanks and one sign
Unsigned(text) ==
  LET t == TrimLeft(text)
  IN IF t # <<>> /\ t[1] \in {"-", "+"} THEN Tail(t) ELSE t

\* parseInt(text) is NaN: there is no leading integer
ParsesToNaN(text) == LeadingDigits(Unsigned(text)) = 0

\* parseInt(text) when it is a number
ParseInt(text) ==
  LET t == TrimLeft(text)
      body == Unsigned(text)
      n == NumVal(SubSeq(body, 1, LeadingDigits(body)))
  IN IF t # <<>> /\ t[1] = "-" THEN 0 - n ELSE n

\* handleAddBook(), with newBook the fields of the form
handleAddBook(newBook) ==
  /\ hpc[Librarian] = "idle"
  /\ IF newBook.isbn = <<>> \/ newBook.name = "" \/ newBook.author = ""
        \/ newBook.total_copies = <<>>
     THEN Done(Librarian, "Please fill all required fields", FALSE)
     ELSE /\ hpc' = [hpc EXCEPT ![Librarian] = "insertBook"]
          /\ frame' = [frame EXCEPT ![Librarian] = [frameInit EXCEPT !.book = <<newBook>>]]
          /\ UNCHANGED alert
  /\ UNCHANGED <<storeVars, recVars, otherVars, myBooks, recentTransactions>>

\* The insert into books: isbn is UNIQUE, the copy counts are INTEGER NOT NULL
AwaitInsertBook(o) ==
  /\ hpc[Librarian] = "insertBook"
  /\ LET newBook == frame[Librarian].book[1]
     IN CASE o = "throw" -> Done(Librarian, "An error occurred", FALSE) /\ UNCHANGED books
          [] \/ o = "error"
             \/ \E i \in 1..Len(books) : books[i].isbn = newBook.isbn
             \/ ParsesToNaN(newBook.total_copies) ->
             Done(Librarian, "Error adding book", FALSE) /\ UNCHANGED books
          [] OTHER ->
             /\ Done(Librarian, "Book added successfully!", FALSE)
             /\ books' = Append(books,
                   [isbn |-> newBook.isbn,
                    category |-> IF newBook.category = "" THEN "General"
                                 ELSE newBook.category,
                    author |-> newBook.author,
                    total_copies |-> ParseInt(newBook.total_copies),
                    available_copies |-> ParseInt(newBook.total_copies)])
  /\ UNCHANGED <<borrowed_books, recVars, otherVars, myBooks, recentTransactions>>

\* -------------------------------------------------- checkAndSendReminders
jobInit == [pc |-> "idle", today |-> 0, fiveDaysFromNow |-> 0,
            overdueData |-> <<>>, dueSoonData |-> <<>>, noData |-> {},
            allReminders |-> <<>>, sent |-> 0, success |-> 0, failed |-> 0, errors |-> <<>>,
            result |-> <<>>]

\* .select('*') of borrowed_books, with the id of the row
LoanView(i) ==
  [id |-> i, user_email |-> borrowed_books[i].user_email,
   book_isbn |-> borrowed_books[i].book_isbn, due_date |-> borrowed_books[i].due_date]

\* The views of the rows at the positions ids, in the order of due_date
OrderedByDueDate(ids) ==
  LET all == [i \in 1..Len(borrowed_books) |-> LoanView(i)]
  IN StableSort(SelectSeq(all, LAMBDA r : r.id \in ids),
                LAMBDA x, y : x.due_date < y.due_date)

\* borrowed_books: .eq('returned', false).lt('due_date', today).order('due_date')
QueryOverdue(today) ==
  OrderedByDueDate({i \in 1..Len(borrowed_books) :
                      ~borrowed_books[i].returned /\ borrowed_books[i].due_date < today})

\* borrowed_books: .eq('returned', false).gte('due_date', today)
\*                 .lte('due_date', fiveDaysFromNow).order('due_date')
QueryDueSoon(today, fiveDaysFromNow) ==
  OrderedByDueDate({i \in 1..Len(borrowed_books) :
                      /\ ~borrowed_books[i].returned
                      /\ borrowed_books[i].due_date >= today
                      /\ borrowed_books[i].due_date <= fiveDaysFromNow})

\* books: .select('isbn, name').in('isbn', [...new Set(allIsbns)]): the keys of booksMap
QueryBookNames(allIsbns) ==
  {books[j].isbn : j \in {k \in 1..Len(books) : Includes(allIsbns, books[k].isbn)}}

\* The name of a book of the catalog
NameOf(isbn) == <<"N">> \o isbn

\* booksMap.get(record.book_isbn) || record.book_isbn
BookTitle(booksMap, isbn) == IF isbn \in booksMap THEN NameOf(isbn) ELSE isbn

\* (overdueData || []).map(record => ...)
OverdueReminders(overdueData, booksMap, today) ==
  [i \in 1..Len(overdueData) |->
     [studentEmail |-> overdueData[i].user_email,
      bookTitle |-> BookTitle(booksMap, overdueData[i].book_isbn),
      dueDate |-> overdueData[i].due_date,
      daysLeft |-> -FloorDays(today - overdueData[i].due_date),
      isOverdue |-> TRUE]]

\* (dueSoonData || []).map(record => ...)
DueSoonReminders(dueSoonData, booksMap, today) ==
  [i \in 1..Len(dueSoonData) |->
     [studentEmail |-> dueSoonData[i].user_email,
      bookTitle |-> BookTitle(booksMap, dueSoonData[i].book_isbn),
      dueDate |-> dueSoonData[i].due_date,
      daysLeft |-> CeilDays(dueSoonData[i].due_date - today),
      isOverdue |-> FALSE]]

\* catch (error) { console.error(...); throw error }
Rethrow ==
  job' = [job EXCEPT !.pc = "thrown"]

\* const today = new Date(); const fiveDaysFromNow = new Date();
\* fiveDaysFromNow.setDate(today.getDate() + 5), up to the first request; the
\* clock moves on by `elapsed` between the two new Date()
checkAndSendReminders(elapsed) ==
  /\ job.pc = "idle"
  /\ LET today == now
         fiveDaysFromNow == SetDate(now + elapsed, GetDate(today) + 5)
     IN job' = [jobInit EXCEPT !.pc = "overdue", !.today = today,
                               !.fiveDaysFromNow = fiveDaysFromNow]
  /\ now' = now + elapsed
  /\ UNCHANGED <<storeVars, recVars, sessVars, loginVars, earlier, mailVars, lib>>

\* Get overdue books
AwaitOverdue(o) ==
  /\ job.pc = "overdue"
  /\ CASE o = "throw" -> Rethrow
       [] o = "error" -> job' = [job EXCEPT !.pc = "dueSoon", !.noData = @ \cup {"overdue"}]
       [] OTHER -> job' = [job EXCEPT !.pc = "dueSoon", !.overdueData = QueryOverdue(job.today)]
  /\ UNCHANGED <<now, storeVars, recVars, sessVars, loginVars, earlier, mailVars, lib>>

\* Get due soon books
AwaitDueSoon(o) ==
  /\ job.pc = "dueSoon"
  /\ CASE o = "throw" -> Rethrow
       [] o = "error" -> job' = [job EXCEPT !.pc = "books", !.noData = @ \cup {"dueSoon"}]
       [] OTHER -> job' = [job EXCEPT !.pc = "books",
                             !.dueSoonData = QueryDueSoon(job.today, job.fiveDaysFromNow)]
  /\ UNCHANGED <<now, storeVars, recVars, sessVars, loginVars, earlier, mailVars, lib>>

\* Get book names, prepare the reminders, and return when there is none
AwaitBookNames(o) ==
  /\ job.pc = "books"
  /\ LET allIsbns == [i \in 1..Len(job.overdueData) |-> job.overdueData[i].book_isbn]
                       \o [i \in 1..Len(job.dueSoonData) |-> job.dueSoonData[i].book_isbn]
         booksMap == IF o = "ok" THEN QueryBookNames(allIsbns) ELSE {}
         allReminders == OverdueReminders(job.overdueData, booksMap, job.today)
                           \o DueSoonReminders(job.dueSoonData, booksMap, job.today)
     IN CASE o = "throw" -> Rethrow
          [] OTHER ->
             job' = [job EXCEPT
                       !.noData = IF o = "error" THEN @ \cup {"books"} ELSE @,
                       !.allReminders = allReminders,
                       !.pc = IF Len(allReminders) = 0 THEN "returned" ELSE "send",
                       !.result = IF Len(allReminders) = 0
                                  THEN [overdueCount |-> 0, dueSoonCount |-> 0,
                                        sentCount |-> 0, failedCount |-> 0]
                                  ELSE @]
  /\ UNCHANGED <<now, storeVars, recVars, sessVars, loginVars, earlier, mailVars, lib>>

\* AwaitSendEmail that returns at the first failure
AwaitSendEmailStopAtFailure(o) ==
  /\ job.pc = "send"
  /\ LET reminder == job.allReminders[job.sent + 1]
         success == IF o = "ok" THEN job.success + 1 ELSE job.success
         failed == IF o = "ok" THEN job.failed ELSE job.failed + 1
         last == job.sent + 1 = Len(job.allReminders) \/ o # "ok"
     IN job' = [job EXCEPT
                  !.sent = @ + 1,
                  !.success = success,
                  !.failed = failed,
                  !.errors = IF o = "ok" THEN @ ELSE Append(@, reminder.studentEmail),
                  !.pc = IF last THEN "returned" ELSE "send",
                  !.result = IF last
                             THEN [overdueCount |-> Len(job.overdueData),
                                   dueSoonCount |-> Len(job.dueSoonData),
                                   sentCount |-> success, failedCount |-> failed]
                             ELSE @]
  /\ UNCHANGED <<now, storeVars, recVars, sessVars, loginVars, earlier, mailVars, lib>>

\* emailService.sendBulkReminders(allReminders): the next reminder is sent or
\* its sending fails; after the last one the counts are returned
AwaitSendEmail(o) ==
  /\ job.pc = "send"
  /\ LET reminder == job.allReminders[job.sent + 1]
         success == IF o = "ok" THEN job.success + 1 ELSE job.success
         failed == IF o = "ok" THEN job.failed ELSE job.failed + 1
         last == job.sent + 1 = Len(job.allReminders)
     IN job' = [job EXCEPT
                  !.sent = @ + 1,
                  !.success = success,
                  !.failed = failed,
                  !.errors = IF o = "ok" THEN @ ELSE Append(@, reminder.studentEmail),
                  !.pc = IF last THEN "returned" ELSE "send",
                  !.result = IF last
                             THEN [overdueCount |-> Len(job.overdueData),
                                   dueSoonCount |-> Len(job.dueSoonData),
                                   sentCount |-> success, failedCount |-> failed]
                             ELSE @]
  /\ UNCHANGED <<now, storeVars, recVars, sessVars, loginVars, earlier, mailVars, lib>>

\* -------------------------------------------------------------- EmailService
\* The fields configure and the constructor set
Fields == {"emailjsServiceId", "emailjsTemplateId", "emailjsPublicKey",
           "gmailApiKey", "senderEmail", "senderName"}

\* Permanent EmailJS configuration: the initial values of the fields
Defaults ==
  [emailjsServiceId |-> "service_ugxce6h", emailjsTemplateId |-> "template_j7w14xq",
   emailjsPublicKey |-> "caKYX4F870Uld9Mg8", gmailApiKey |-> "",
   senderEmail |-> "libdemo142536@gmail.com", senderName |-> "CampusReads Library"]

\* if (config.f): the property is there and is not the empty string
Truthy(config, f) == f \in DOMAIN config /\ config[f] # ""

\* if (config.f) this.f = config.f, for each field
Override(current, config) ==
  [f \in Fields |-> IF Truthy(config, f) THEN config[f] ELSE current[f]]

\* localStorage.getItem('emailSettings'): null, a text JSON.parse throws on or
\* parses to null, or the JSON of an object with the properties `value`
NoItem == [kind |-> "null", value |-> <<>>]
BadItem == [kind |-> "invalid", value |-> <<>>]
Item(object) == [kind |-> "json", value |-> object]

\* new EmailService(): the defaults, overridden by the saved settings
Constructor(item) ==
  IF item.kind = "json" THEN Override(Defaults, item.value) ELSE Defaults

mailInit == [pc |-> "idle", tried |-> {}, error |-> "none"]

\* The page is loaded: export const emailService = EmailService.getInstance()
Load ==
  /\ emailService' = Constructor(emailSettings)
  /\ mail' = mailInit
  /\ UNCHANGED <<emailSettings, storeVars, recVars, sessVars, clockVars, loginVars, earlier, lib>>

\* configure that assigns every property the config has
configureAssigning(config) ==
  /\ emailService' = [f \in Fields |-> IF f \in DOMAIN config THEN config[f]
                                       ELSE emailService[f]]
  /\ emailSettings' = Item(emailService')
  /\ UNCHANGED <<mail, storeVars, recVars, sessVars, clockVars, loginVars, earlier, lib>>

\* configure(config), with the save to localStorage
configure(config) ==
  /\ emailService' = Override(emailService, config)
  /\ emailSettings' = Item(emailService')
  /\ UNCHANGED <<mail, storeVars, recVars, sessVars, clockVars, loginVars, earlier, lib>>

\* The three EmailJS fields are set
EmailJSConfigured ==
  /\ emailService.emailjsServiceId # ""
  /\ emailService.emailjsTemplateId # ""
  /\ emailService.emailjsPublicKey # ""

\* sendEmail(data), up to its request: EmailJS when its three fields are set
\* (sendViaEmailJS checks them again before it sends), else the API when
\* there is a gmailApiKey, else it throws
sendEmail ==
  /\ mail.pc # "emailjs" /\ mail.pc # "api"
  /\ mail' = IF EmailJSConfigured
             THEN [pc |-> "emailjs", tried |-> {"emailjs"}, error |-> "none"]
             ELSE IF emailService.gmailApiKey # ""
             THEN [pc |-> "api", tried |-> {"api"}, error |-> "none"]
             ELSE [pc |-> "thrown", tried |-> {},
                   error |-> "No email service configured"]
  /\ UNCHANGED <<emailService, emailSettings, storeVars, recVars, sessVars, clockVars,
                 loginVars, earlier, lib>>

\* The request of sendViaEmailJS (emailjs.send) or of sendViaAPI (fetch) is
\* answered: true is returned, or the error is logged and thrown again
AwaitSend(o) ==
  /\ mail.pc \in {"emailjs", "api"}
  /\ mail' = IF o = "ok" THEN [mail EXCEPT !.pc = "returned"]
             ELSE [mail EXCEPT !.pc = "thrown",
                     !.error = IF mail.pc = "emailjs" THEN "EmailJS send error"
                               ELSE "Email API error"]
  /\ UNCHANGED <<emailService, emailSettings, storeVars, recVars, sessVars, clockVars,
                 loginVars, earlier, lib>>

\* ------------------------------------------- the librarian's reminders tab
\* (passed is history: the ticks of the clock since the page was loaded)
libInit == [overdueBooks |-> <<>>, dueSoonBooks |-> <<>>, sendingEmails |-> FALSE,
            pc |-> "idle", allReminders |-> <<>>, individual |-> <<>>, alert |-> "none",
            passed |-> 0]

\* data.map(item => ({ ...item, book_name: booksMap.get(item.book_isbn) })):
\* the rows with the name of their book, <<>> when booksMap has none
Enriched(data, booksMap) ==
  [i \in 1..Len(data) |->
     [id |-> data[i].id, user_email |-> data[i].user_email,
      book_isbn |-> data[i].book_isbn, due_date |-> data[i].due_date,
      book_name |-> IF data[i].book_isbn \in booksMap
                    THEN NameOf(data[i].book_isbn) ELSE <<>>]]

\* The keys of booksMap after the request for the names was answered
NamesRead(data, o) == IF o = "ok" THEN QueryBookNames([i \in 1..Len(data) |-> data[i].book_isbn]) ELSE {}

\* The clock moves on
Pass ==
  /\ lib.passed < MaxPassed
  /\ now' = now + 1
  /\ lib' = [lib EXCEPT !.passed = @ + 1]
  /\ UNCHANGED <<job, storeVars, recVars, sessVars, loginVars, earlier, mailVars>>

\* loadOverdue(): the records, then the names of their books
loadOverdue(o, o2) ==
  /\ LET data == QueryOverdue(now)
     IN lib' = IF o = "ok" /\ o2 # "throw"
               THEN [lib EXCEPT !.overdueBooks = Enriched(data, NamesRead(data, o2))]
               ELSE lib
  /\ UNCHANGED <<storeVars, recVars, sessVars, clockVars, loginVars, earlier, mailVars>>

\* loadDueSoon(): the clock moves on by `elapsed` between its two new Date()
loadDueSoon(elapsed, o, o2) ==
  /\ lib.passed + elapsed <= MaxPassed
  /\ LET today == now
         fiveDaysFromNow == SetDate(now + elapsed, GetDate(today) + 5)
         data == QueryDueSoon(today, fiveDaysFromNow)
     IN lib' = [lib EXCEPT
                  !.passed = @ + elapsed,
                  !.dueSoonBooks = IF o = "ok" /\ o2 # "throw"
                                   THEN Enriched(data, NamesRead(data, o2)) ELSE @]
  /\ now' = now + elapsed
  /\ UNCHANGED <<job, storeVars, recVars, sessVars, loginVars, earlier, mailVars>>

\* record.book_name || record.book_isbn
TitleOf(record) == IF record.book_name # <<>> THEN record.book_name ELSE record.book_isbn

\* overdueBooks.map(record => ...) of sendReminders
ListedOverdueReminders(rows, today) ==
  [i \in 1..Len(rows) |->
     [studentEmail |-> rows[i].user_email,
      bookTitle |-> TitleOf(rows[i]),
      dueDate |-> rows[i].due_date,
      daysLeft |-> -FloorDays(today - rows[i].due_date),
      isOverdue |-> TRUE]]

\* dueSoonBooks.map(record => ...) of sendReminders
ListedDueSoonReminders(rows, today) ==
  [i \in 1..Len(rows) |->
     [studentEmail |-> rows[i].user_email,
      bookTitle |-> TitleOf(rows[i]),
      dueDate |-> rows[i].due_date,
      daysLeft |-> CeilDays(rows[i].due_date - today),
      isOverdue |-> FALSE]]

\* sendReminders(), up to the call of sendBulkReminders
sendReminders ==
  /\ lib.pc = "idle" /\ ~lib.sendingEmails
  /\ LET allReminders == ListedOverdueReminders(lib.overdueBooks, now)
                           \o ListedDueSoonReminders(lib.dueSoonBooks, now)
     IN lib' = IF Len(allReminders) = 0
               THEN [lib EXCEPT !.alert = "No reminders to send!", !.allReminders = <<>>,
                                !.individual = <<>>]
               ELSE [lib EXCEPT !.pc = "bulk", !.sendingEmails = TRUE, !.alert = "none",
                                !.allReminders = allReminders, !.individual = <<>>]
  /\ UNCHANGED <<storeVars, recVars, sessVars, clockVars, loginVars, earlier, mailVars>>

\* sendBulkReminders has returned with `failed` failures; the lists are
\* loaded again by loadOverdue() and loadDueSoon()
AwaitBulk(failed) ==
  /\ lib.pc = "bulk"
  /\ failed \in 0..Len(lib.allReminders)
  /\ lib' = [lib EXCEPT !.pc = "idle", !.sendingEmails = FALSE,
                        !.alert = IF failed = 0 THEN "Successfully sent" ELSE "failed"]
  /\ UNCHANGED <<storeVars, recVars, sessVars, clockVars, loginVars, earlier, mailVars>>

\* sendIndividualReminder(record), up to the call of sendOverdueNotice or
\* sendDueReminder
sendIndividualReminder(record) ==
  /\ lib.pc = "idle"
  /\ LET today == now
         daysDiff == CeilDays(record.due_date - today)
         isOverdue == daysDiff < 0
         daysLeft == IF daysDiff < 0 THEN -daysDiff ELSE daysDiff
     IN lib' = [lib EXCEPT !.pc = "individual", !.alert = "none", !.allReminders = <<>>,
                           !.individual = << [id |-> record.id, dueDate |-> record.due_date,
                                              today |-> today, isOverdue |-> isOverdue,
                                              daysLeft |-> daysLeft] >>]
  /\ UNCHANGED <<storeVars, recVars, sessVars, clockVars, loginVars, earlier, mailVars>>

\* The notice or the reminder was sent, or the sending failed
AwaitIndividual(o) ==
  /\ lib.pc = "individual"
  /\ lib' = [lib EXCEPT !.pc = "idle",
                        !.alert = IF o = "ok" THEN "Reminder sent successfully"
                                  ELSE "Failed to send reminder"]
  /\ UNCHANGED <<storeVars, recVars, sessVars, clockVars, loginVars, earlier, mailVars>>

\* ------------------------------------------------------------------ Login
\* null
Null == "null"

\* auth.users: the accounts of Supabase Auth
AuthUsers ==
  { [id |-> "i1", email |-> "s@x", password |-> "p"],
    [id |-> "i2", email |-> "l@x", password |-> "p"],
    [id |-> "i3", email |-> "n@x", password |-> "p"] }

\* public.users: role is 'student' or 'librarian'; the account i3 has no row
UsersTable ==
  { [id |-> "i1", email |-> "s@x", role |-> "student"],
    [id |-> "i2", email |-> "l@x", role |-> "librarian"] }

\* What is typed into the email and password fields
Credentials == { <<"s@x", "p">>, <<"s@x", "q">>, <<"l@x", "p">>, <<"n@x", "p">> }

\* The answers to a request of handleLogin: data, an error value, neither, or
\* a rejected promise
LoginOutcomes == {"ok", "error", "empty", "throw"}

LoginSlots == 1..MaxLogins

\* String.prototype.toLowerCase() on the spellings of a role
ToLowerCase(text) ==
  CASE text \in {"Student", "STUDENT"} -> "student"
    [] text \in {"Librarian", "LIBRARIAN"} -> "librarian"
    [] OTHER -> text

\* The accounts signInWithPassword accepts the credentials for
Authenticated(email, password) ==
  {a \in AuthUsers : a.email = email /\ a.password = password}

\* .from('users').select('role, email').eq('id', id)
QueryUser(id) == {row \in UsersTable : row.id = id}

\* userData before the users table has answered
noUserData == [id |-> Null, email |-> Null, role |-> Null]

loginInit == [pc |-> "idle", email |-> "", password |-> "", selectedRole |-> Null,
              user |-> Null, userData |-> noUserData, said |-> "none"]

noStorage == [userEmail |-> Null, userRole |-> Null, userId |-> Null]

\* An alert() of the login page is open: nothing else runs on the page
AlertOpen == \E s \in LoginSlots : login[s].pc = "alert"

\* alert(msg); return
Say(s, msg) ==
  /\ login' = [login EXCEPT ![s].pc = "alert", ![s].said = msg]
  /\ UNCHANGED <<role, localStorage, session>>

\* if (selected && dbRole !== selected) without the comparison
MismatchIgnored(selected, dbRole) == FALSE

\* if (selected && dbRole !== selected)
Mismatch(selected, dbRole) ==
  ToLowerCase(selected) # Null /\ ToLowerCase(dbRole) # ToLowerCase(selected)

\* onClick={() => setSelectedRole('student')}, ... ('librarian')
SetSelectedRole(r) ==
  /\ role = Null /\ ~AlertOpen
  /\ selectedRole = Null
  /\ selectedRole' = r
  /\ UNCHANGED <<role, localStorage, session, login,
                 storeVars, recVars, sessVars, clockVars, earlier, mailVars, lib>>

\* The Change button: setSelectedRole(null)
ChangeRole ==
  /\ role = Null /\ ~AlertOpen
  /\ selectedRole # Null
  /\ selectedRole' = Null
  /\ UNCHANGED <<role, localStorage, session, login,
                 storeVars, recVars, sessVars, clockVars, earlier, mailVars, lib>>

\* The Login button or Enter, with the form as it is rendered: handleLogin up
\* to signInWithPassword
handleLogin(s, typed) ==
  /\ role = Null /\ ~AlertOpen
  /\ selectedRole # Null
  /\ login[s].pc = "idle"
  /\ login' = [login EXCEPT ![s] = [loginInit EXCEPT !.pc = "signIn", !.email = typed[1],
                                                  !.password = typed[2],
                                                  !.selectedRole = selectedRole]]
  /\ UNCHANGED <<selectedRole, role, localStorage, session,
                 storeVars, recVars, sessVars, clockVars, earlier, mailVars, lib>>

\* First, sign in with Supabase Auth
AwaitSignIn(s, o) ==
  /\ login[s].pc = "signIn" /\ ~AlertOpen
  /\ LET accepted == Authenticated(login[s].email, login[s].password)
     IN CASE o = "throw" -> Say(s, "An unexpected error occurred")
          [] o = "error" \/ (o = "ok" /\ accepted = {}) -> Say(s, "Login error")
          [] o = "empty" -> Say(s, "Authentication failed")
          [] OTHER ->
             LET user == (CHOOSE a \in accepted : TRUE).id
             IN /\ login' = [login EXCEPT ![s].pc = "userRow", ![s].user = user]
                /\ session' = user
                /\ UNCHANGED <<role, localStorage>>
  /\ UNCHANGED <<selectedRole, storeVars, recVars, sessVars, clockVars, earlier, mailVars, lib>>

\* Then get the user's role from the users table using the auth user's ID
AwaitUserRow(s, o) ==
  /\ login[s].pc = "userRow" /\ ~AlertOpen
  /\ LET rows == QueryUser(login[s].user)
     IN CASE o = "throw" -> Say(s, "An unexpected error occurred")
          [] o = "error" \/ (o = "ok" /\ rows = {}) -> Say(s, "Error getting user role")
          [] o = "empty" -> Say(s, "User profile not found")
          [] OTHER ->
             LET userData == CHOOSE row \in rows : TRUE
             IN IF Mismatch(login[s].selectedRole, userData.role)
                THEN /\ login' = [login EXCEPT ![s].pc = "alert", ![s].said = "Role mismatch",
                                               ![s].userData = userData]
                     /\ UNCHANGED <<role, localStorage, session>>
                ELSE /\ role' = userData.role
                     /\ localStorage' =
                          [userEmail |-> IF userData.email # "" THEN userData.email
                                         ELSE login[s].email,
                           userRole |-> userData.role,
                           userId |-> login[s].user]
                     /\ login' = [login EXCEPT ![s].pc = "idle", ![s].userData = userData]
                     /\ UNCHANGED session
  /\ UNCHANGED <<selectedRole, storeVars, recVars, sessVars, clockVars, earlier, mailVars, lib>>

\* The alert() of handleLogin is closed
DismissLogin(s) ==
  /\ login[s].pc = "alert"
  /\ login' = [login EXCEPT ![s] = loginInit]
  /\ UNCHANGED <<selectedRole, role, localStorage, session,
                 storeVars, recVars, sessVars, clockVars, earlier, mailVars, lib>>

\* The Logout button of a dashboard: signOut(), localStorage.clear() and
\* window.location.reload(), which constructs Login anew
Logout ==
  /\ role # Null /\ ~AlertOpen
  /\ session' = Null
  /\ localStorage' = noStorage
  /\ role' = Null
  /\ selectedRole' = Null
  /\ login' = [s \in LoginSlots |-> loginInit]
  /\ emailSettings' = NoItem
  /\ emailService' = Constructor(NoItem)
  /\ mail' = mailInit
  /\ lib' = libInit
  /\ UNCHANGED <<storeVars, recVars, sessVars, clockVars, earlier>>

\* ------------------------------------------------------------ the catalogs
\* The catalog the recommendations are computed on: two books of one category
\* with two copies each, a book with no category, a second book of an author,
\* and books that share nothing with the borrowable ones.
Catalog(copies) ==
  << Book(<<"5">>, "A", "X", 2),
     Book(<<"3">>, "A", "Y", copies),
     Book(<<"7">>, "", "Z", 1),
     Book(<<"9", "-", "4">>, "C", "Y", 1),
     Book(<<"9", "-", "5">>, "D", "V", 3),
     Book(<<"9", "-", "6">>, "E", "W", 2),
     Book(<<"9", "-", "7">>, "F", "T", 1) >>

\* The catalog of the dashboards' specification
SmallCatalog ==
  << Book(<<"5">>, "A", "X", 2),
     Book(<<"9", "-", "4">>, "C", "Y", 1) >>

\* The borrowed_books table, with the inserts still to come, has room below max
Room(max) == Len(borrowed_books) + Cardinality({s \in Users : hpc[s] \in BorrowPcs}) < max

\* Another handler may start
MayStart == Cardinality({s \in Sessions : hpc[s] # "idle"}) < MaxInFlight

\* The ISBNs the students borrow
Borrowable == {books[i].isbn : i \in 1..Min(MaxBorrowable, Len(books))}

InitComponent ==
  /\ mounted = FALSE
  /\ userEmail = NoEmail
  /\ recommendations = <<>>
  /\ loading = TRUE
  /\ pc = "idle"
  /\ lr = lrInit
  /\ ph = phInit
  /\ run = runInit

InitSessions ==
  /\ hpc = [s \in Sessions |-> "idle"]
  /\ frame = [s \in Sessions |-> frameInit]
  /\ alert = [s \in Sessions |-> "none"]
  /\ myBooks = [u \in Users |-> {}]
  /\ recentTransactions = {}

InitLogin ==
  /\ selectedRole = Null
  /\ role = Null
  /\ localStorage = noStorage
  /\ session = Null
  /\ login = [s \in LoginSlots |-> loginInit]

\* No settings were saved and nothing is being sent
InitMail ==
  /\ emailSettings = NoItem
  /\ emailService = Constructor(NoItem)
  /\ mail = mailInit
  /\ lib = libInit

\* Nothing of the page outside the dashboards has run, at 00:00 on the first
InitOther ==
  /\ now = 0
  /\ job = jobInit
  /\ InitLogin
  /\ earlier = <<>>
  /\ InitMail

Init ==
  /\ \E copies \in 1..MaxCopies : books = Catalog(copies)
  /\ borrowed_books = <<>>
  /\ InitComponent
  /\ InitSessions
  /\ InitOther

\* The students borrow and return, one handler at a time, while the
\* Recommendations tab is closed; the component reads the stores they leave.
Next ==
  \/ \E e \in Users \cup {NoEmail} : Quiet /\ Mount(e)
  \/ \E e \in Users \cup {NoEmail} : SetUserEmail(e)
  \/ Unmount
  \/ Render
  \/ \E o \in Outcomes : AwaitUserBorrows(o)
  \/ \E o \in Outcomes : AwaitSimilarBorrows(o)
  \/ \E o \in Outcomes : AwaitOtherUserBorrows(o)
  \/ \E o \in Outcomes : AwaitRecommendedBooks(o)
  \/ \E o \in Outcomes : AwaitUserBooks(o)
  \/ \E o \in Outcomes : AwaitCategoryBooks(o)
  \/ \E o \in Outcomes : AwaitAuthorBooks(o)
  \/ \E o \in Outcomes : AwaitPopularBooks(o)
  \/ \E u \in Users, isbn \in Borrowable :
        Quiet /\ ~mounted /\ Room(MaxLedger) /\ borrowBook(u, isbn, <<>>)
  \/ \E u \in Users : AwaitExact(u, "ok")
  \/ \E u \in Users : AwaitInsert(u, "ok")
  \/ \E u \in Users : AwaitUpdate(u, "ok")
  \/ \E u \in Users, id \in 1..MaxLedger : Quiet /\ ~mounted /\ handleReturnBook(u, id)
  \/ \E u \in Users : AwaitMarkReturned(u, "ok")
  \/ \E u \in Users : AwaitReadCopies(u, "ok")
  \/ \E u \in Users : AwaitWriteCopies(u, "ok")
  \/ \E u \in Users : Dismiss(u)

Spec == Init /\ [][Next]_vars

\* -------------------------------------------------- the dashboards alone
\* What the students type or scan: (isbnToBorrow, text of the input field)
BorrowInputs ==
  { <<(<<>>), (<<>>)>>,
    <<(<<>>), <<" ", "5">> >>,
    <<(<<"5">>), (<<>>)>>,
    <<(<<"5", "-">>), (<<>>)>>,
    <<(<<"9", "-", "4">>), (<<>>)>>,
    <<(<<"9", "4">>), (<<>>)>>,
    <<(<<"0">>), (<<>>)>> }

\* What the librarian enters in the Add Book form
NewBooks ==
  { [isbn |-> i, name |-> "N", author |-> "W", category |-> c, total_copies |-> t] :
      i \in {<<>>, <<"5">>, <<"8">>}, c \in {""},
      t \in {<<>>, <<"2">>, <<"-", "1">>} }

InitLedger ==
  /\ books = SmallCatalog
  /\ borrowed_books = <<>>
  /\ InitComponent
  /\ InitSessions
  /\ InitOther

\* The students and the librarian, their handlers interleaved at every request
NextLedger ==
  \/ \E u \in Users, in \in BorrowInputs : MayStart /\ Room(MaxRows) /\ borrowBook(u, in[1], in[2])
  \/ \E u \in Users, o \in Outcomes : AwaitExact(u, o)
  \/ \E u \in Users, o \in Outcomes : AwaitNormalized(u, o)
  \/ \E u \in Users, o \in Outcomes : AwaitAllBooks(u, o)
  \/ \E u \in Users, o \in Outcomes : AwaitInsert(u, o)
  \/ \E u \in Users, o \in Outcomes : AwaitUpdate(u, o)
  \/ \E u \in Users : loadMyBooks(u)
  \/ loadTransactions
  \/ \E s \in Sessions, id \in 1..MaxRows : MayStart /\ handleReturnBook(s, id)
  \/ \E s \in Sessions, o \in Outcomes : AwaitMarkReturned(s, o)
  \/ \E s \in Sessions, o \in Outcomes : AwaitReadCopies(s, o)
  \/ \E s \in Sessions, o \in Outcomes : AwaitWriteCopies(s, o)
  \/ \E s \in Sessions : Dismiss(s)
  \/ \E newBook \in NewBooks :
        MayStart /\ Len(books) < Len(SmallCatalog) + MaxAdded /\ handleAddBook(newBook)
  \/ \E o \in Outcomes : AwaitInsertBook(o)

SpecLedger == InitLedger /\ [][NextLedger]_vars

\* ---------------------------------------------------- the ranking alone
\* The borrowers of the ledgers the ranking is computed on
Borrowers == Users \cup {"u3"}

\* The catalog of the ranking's specification, before anything is lent: three
\* books of category A, two of them with digit-only ISBNs, two books of author
\* T, and a book with a single copy
RankCatalog ==
  << Book(<<"5">>, "A", "X", 3),
     Book(<<"3">>, "A", "Y", 2),
     Book(<<"7">>, "", "Z", 2),
     Book(<<"9", "-", "4">>, "C", "Y", 1),
     Book(<<"9", "-", "5">>, "D", "V", 3),
     Book(<<"9", "-", "6">>, "E", "W", 2),
     Book(<<"9", "-", "7">>, "F", "T", 2),
     Book(<<"9", "-", "8">>, "A", "T", 1) >>

\* A row of borrowed_books of a book borrowed on the first of the month
Held(email, isbn, returned) == Loan(email, isbn, returned, DueDate(0))

\* The records the ledgers are drawn from, in the order of their insertion
RankDeck ==
  << Held("u1", <<"5">>, FALSE),
     Held("u1", <<"9", "-", "7">>, TRUE),
     Held("u3", <<"9", "-", "7">>, FALSE),
     Held("u2", <<"5">>, TRUE),
     Held("u2", <<"5">>, FALSE),
     Held("u2", <<"7">>, FALSE),
     Held("u2", <<"3">>, FALSE),
     Held("u2", <<"9", "-", "4">>, FALSE),
     Held("u2", <<"9", "-", "7">>, FALSE),
     Held("u2", <<"9", "-", "5">>, FALSE),
     Held("u2", <<"9", "-", "6">>, FALSE),
     Held("u2", <<"9", "-", "5">>, FALSE),
     Held("u3", <<"5">>, FALSE) >>

\* The records of the deck at the positions of mask, in the deck's order
Picked(deck, mask) ==
  LET F[i \in 0..Len(deck)] ==
        IF i = 0 THEN <<>>
        ELSE IF i \in mask THEN Append(F[i - 1], deck[i]) ELSE F[i - 1]
  IN F[Len(deck)]

\* The catalog after the active records of the ledger were lent: borrowBook
\* takes one copy per record, handleReturnBook gives it back
Lent(catalog, ledger) ==
  [j \in 1..Len(catalog) |->
     [catalog[j] EXCEPT !.available_copies =
        @ - Cardinality({i \in 1..Len(ledger) :
                           ledger[i].book_isbn = catalog[j].isbn /\ ~ledger[i].returned})]]

\* The last characters of the ISBNs of the reader's catalog
Letters == <<"a", "b", "c", "d", "e", "f", "g", "h", "i", "j", "k", "l", "m", "n", "o",
             "p", "q", "r", "s", "t", "u", "v", "w", "x", "y", "z">>

\* The catalog of a reader who holds one book more than the userBooks request
\* returns: UserBooksLimit books of category H, one book of category K, then a
\* second book of category K and MaxRecs books with more copies.
ReaderCatalog ==
  [j \in 1..(UserBooksLimit + 2 + MaxRecs) |->
     IF j <= UserBooksLimit THEN Book(<<"8", "-", Letters[j]>>, "H", "P", 1)
     ELSE IF j = UserBooksLimit + 1 THEN Book(<<"8", "-", Letters[j]>>, "K", "Q", 1)
     ELSE IF j = UserBooksLimit + 2 THEN Book(<<"8", "-", Letters[j]>>, "K", "R", 1)
     ELSE Book(<<"8", "-", Letters[j]>>, "M", "S", 2)]

\* The reader's records: the first UserBooksLimit + 1 books of the catalog
ReaderLedger ==
  [i \in 1..(UserBooksLimit + 1) |-> Held("u1", ReaderCatalog[i].isbn, FALSE)]

InitRank ==
  /\ \/ \E mask \in SUBSET (1..Len(RankDeck)) :
          /\ Cardinality(mask) <= MaxPicked
          /\ borrowed_books = Picked(RankDeck, mask)
          /\ books = Lent(RankCatalog, Picked(RankDeck, mask))
     \/ /\ borrowed_books = ReaderLedger
        /\ books = Lent(ReaderCatalog, ReaderLedger)
  /\ InitComponent
  /\ InitSessions
  /\ InitOther

\* The Recommendations tab is opened for a borrower on a ledger as it stands,
\* and every request is answered with data
NextRank ==
  \/ \E e \in Borrowers : Mount(e)
  \/ Unmount
  \/ Render
  \/ AwaitUserBorrows("ok")
  \/ AwaitSimilarBorrows("ok")
  \/ AwaitOtherUserBorrows("ok")
  \/ AwaitRecommendedBooks("ok")
  \/ AwaitUserBooks("ok")
  \/ AwaitCategoryBooks("ok")
  \/ AwaitAuthorBooks("ok")
  \/ AwaitPopularBooks("ok")

SpecRank == InitRank /\ [][NextRank]_vars

\* ------------------------------------------------ the same borrower again
\* The ledgers that are not written: u1 and u2 hold book 5 and u2 holds book
\* 3; or u3 holds book 9-7 and nobody else holds a book
RepeatLedgers == { Picked(RankDeck, {1, 5, 7}), Picked(RankDeck, {3}) }

InitRepeat ==
  /\ borrowed_books \in RepeatLedgers
  /\ books = Lent(RankCatalog, borrowed_books)
  /\ InitComponent
  /\ InitSessions
  /\ InitOther

\* The tab is opened and the userEmail prop changes while nothing is borrowed
\* or returned; the first request may be answered with an error
NextRepeat ==
  \/ \E e \in Borrowers : Mount(e)
  \/ \E e \in Borrowers : SetUserEmail(e)
  \/ Unmount
  \/ RenderAndRecord
  \/ \E o \in {"ok", "error"} : AwaitUserBorrows(o)
  \/ AwaitSimilarBorrows("ok")
  \/ AwaitOtherUserBorrows("ok")
  \/ AwaitRecommendedBooks("ok")
  \/ AwaitUserBooks("ok")
  \/ AwaitCategoryBooks("ok")
  \/ AwaitAuthorBooks("ok")
  \/ AwaitPopularBooks("ok")

SpecRepeat == InitRepeat /\ [][NextRepeat]_vars

\* ------------------------------------------------------ the reminders alone
\* When checkAndSendReminders is called: in the morning and in the last tick
\* of the 10th, and in the last tick of the month
StartTicks ==
  { 9 * TicksPerDay, 10 * TicksPerDay - 1, MonthDays * TicksPerDay - 1 }

\* The due dates of the records, in ticks after the call: a tick ago, now, half
\* a day less than 5 days, 5 days, a tick more than 5 days, 10 days
DueOffsets ==
  { -1, 0, 5 * TicksPerDay - 1, 5 * TicksPerDay, 5 * TicksPerDay + 1, 10 * TicksPerDay }

\* The rows of borrowed_books at the call, of the books of the catalog
LoansAt(start) ==
  { Loan("u1", isbn, returned, start + off) :
      isbn \in Range(Isbns(SmallCatalog)), returned \in BOOLEAN, off \in DueOffsets }

InitReminders ==
  /\ books = SmallCatalog
  /\ \E start \in StartTicks :
       /\ now = start
       /\ \E n \in 0..MaxLoans : borrowed_books \in [1..n -> LoansAt(start)]
  /\ job = jobInit
  /\ InitComponent
  /\ InitSessions
  /\ InitLogin
  /\ earlier = <<>>
  /\ InitMail

NextReminders ==
  \/ \E elapsed \in 0..MaxElapsed : checkAndSendReminders(elapsed)
  \/ \E o \in Outcomes : AwaitOverdue(o)
  \/ \E o \in Outcomes : AwaitDueSoon(o)
  \/ \E o \in Outcomes : AwaitBookNames(o)
  \/ \E o \in {"ok", "throw"} : AwaitSendEmail(o)

SpecReminders == InitReminders /\ [][NextReminders]_vars

\* ------------------------------------------------------ the EmailService alone
\* What a configure call passes: any of the fields, each empty or set
ConfigValues == {"", "custom"}
Configs == UNION {[D -> ConfigValues] : D \in SUBSET Fields}

\* What localStorage holds under emailSettings when the page is first loaded
SavedItems ==
  {NoItem, BadItem,
   Item([f \in Fields |-> ""]),
   Item([f \in {"emailjsServiceId"} |-> ""]),
   Item([f \in {"emailjsPublicKey", "gmailApiKey"} |-> "custom"])}

InitMailPage ==
  /\ books = SmallCatalog
  /\ borrowed_books = <<>>
  /\ InitComponent
  /\ InitSessions
  /\ InitLogin
  /\ now = 0
  /\ job = jobInit
  /\ earlier = <<>>
  /\ emailSettings \in SavedItems
  /\ emailService = Constructor(emailSettings)
  /\ mail = mailInit
  /\ lib = libInit

NextMail ==
  \/ Load
  \/ \E config \in Configs : configure(config)
  \/ sendEmail
  \/ \E o \in {"ok", "throw"} : AwaitSend(o)

SpecMail == InitMailPage /\ [][NextMail]_vars

\* ------------------------------------------- the reminders tab alone
InitLibrarian ==
  /\ books = SmallCatalog
  /\ \E start \in StartTicks :
       /\ now = start
       /\ \E n \in 0..MaxListed : borrowed_books \in [1..n -> LoansAt(start)]
  /\ job = jobInit
  /\ InitComponent
  /\ InitSessions
  /\ InitLogin
  /\ earlier = <<>>
  /\ InitMail

NextLibrarian ==
  \/ Pass
  \/ \E o, o2 \in Outcomes : loadOverdue(o, o2)
  \/ \E elapsed \in 0..MaxElapsed, o, o2 \in Outcomes : loadDueSoon(elapsed, o, o2)
  \/ sendReminders
  \/ \E failed \in 0..MaxListed : AwaitBulk(failed)
  \/ \E k \in 1..Len(lib.overdueBooks) : sendIndividualReminder(lib.overdueBooks[k])
  \/ \E k \in 1..Len(lib.dueSoonBooks) : sendIndividualReminder(lib.dueSoonBooks[k])
  \/ \E o \in {"ok", "throw"} : AwaitIndividual(o)

SpecLibrarian == InitLibrarian /\ [][NextLibrarian]_vars

\* ----------------------------------------------------------- Login alone
InitLoginPage ==
  /\ books = SmallCatalog
  /\ borrowed_books = <<>>
  /\ InitComponent
  /\ InitSessions
  /\ InitOther

NextLogin ==
  \/ \E r \in {"student", "librarian"} : SetSelectedRole(r)
  \/ ChangeRole
  \/ \E s \in LoginSlots, typed \in Credentials : handleLogin(s, typed)
  \/ \E s \in LoginSlots, o \in LoginOutcomes : AwaitSignIn(s, o)
  \/ \E s \in LoginSlots, o \in LoginOutcomes : AwaitUserRow(s, o)
  \/ \E s \in LoginSlots : DismissLogin(s)
  \/ Logout

SpecLogin == InitLoginPage /\ [][NextLogin]_vars

\* ================================================================ claims
\* The ISBNs of the borrower's active (returned = false) records
OwnActive(email) == {borrowed_books[i].book_isbn : i \in ActiveIds(borrowed_books, email)}

\* The ISBNs in the list the component holds
RecIsbns == {recommendations[i].isbn : i \in 1..Len(recommendations)}

\* The available catalog entries outside the borrower's active set
Candidates(email) ==
  {books[j].isbn : j \in {k \in 1..Len(books) :
      books[k].available_copies > 0 /\ books[k].isbn \notin OwnActive(email)}}

\* The available_copies of a catalog entry
AvailableCopies(isbn) ==
  (books[CHOOSE j \in 1..Len(books) : books[j].isbn = isbn]).available_copies

\* The ISBNs the peer ranking yields on the stores as they are
PeerRanked(email) ==
  LET userBorrows == QueryUserBorrows(email)
      own == [i \in 1..Len(userBorrows) |-> userBorrows[i].book_isbn]
      peers == OtherUserEmails(QuerySimilarBorrows(own, email))
  IN Range(SortedISBNs(QueryOtherUserBorrows(peers), own))

\* An invocation of loadRecommendations has just returned
Completed == pc = "done" /\ userEmail # NoEmail

\* ... and it has called setRecommendations
Produced == Completed /\ run.wrote

\* ... and every request it made was answered with data
Unfailed == run.failedRead = "none" /\ ~run.phFailed

\* C1: the list produced by loadRecommendations never contains a book for which
\* the borrower has an active borrow record, on any path.
C1_NeverOwnBooks == Produced => RecIsbns \cap OwnActive(userEmail) = {}

\* C2: every entry of the list had available_copies > 0 in the catalog read that
\* supplied it; a peer-ranked ISBN whose catalog entry has no available copy when
\* it is resolved is neither among the resolved peer entries nor in the result.
C2_OnlyAvailable ==
  /\ \A i \in 1..Len(recommendations) : recommendations[i].available_copies > 0
  /\ \A i \in 1..Len(ph.sortedBooks) : AvailableCopies(ph.sortedBooks[i].isbn) > 0
  /\ Produced => \A i \in 1..Len(recommendations) :
                   AvailableCopies(recommendations[i].isbn) = recommendations[i].available_copies

\* C2's case: a list was produced although a peer-ranked book has no copy left
C2_Witness ==
  /\ Produced /\ Unfailed
  /\ recommendations # <<>>
  /\ \E isbn \in PeerRanked(userEmail) : AvailableCopies(isbn) = 0

\* C3: the list has at most 5 entries, whatever it is built from.
C3_AtMostFive == Len(recommendations) <= MaxRecs

\* C3's case: a peer-ranked entry followed by fallback entries, cut to 5 of 6
C3_Witness ==
  /\ Produced /\ Unfailed
  /\ Len(recommendations) = MaxRecs
  /\ recommendations[1].isbn \in PeerRanked(userEmail)
  /\ recommendations[MaxRecs].isbn \notin PeerRanked(userEmail)
  /\ Cardinality(Candidates(userEmail)) > MaxRecs

\* C4: a failed request of loadRecommendations itself counts as no result for
\* that step: when no request of the fallback tiers fails, the list is set from
\* the tiers, and it is not empty when the catalog has a candidate.
C4_FailureFallsThrough ==
  (Completed /\ run.failedRead # "none" /\ ~run.phFailed)
    => /\ run.wrote
       /\ (Candidates(userEmail) # {} => recommendations # <<>>)

\* C5: when every request succeeds, the tiers fill the list up: it has 5
\* entries when there are at least 5 candidates, and else holds every candidate.
C5_FilledToFive ==
  (Produced /\ Unfailed)
    => IF Cardinality(Candidates(userEmail)) >= MaxRecs
       THEN Len(recommendations) = MaxRecs
       ELSE RecIsbns = Candidates(userEmail)

\* C8: with no identity the list is empty after the request and no store is queried.
C8_NoIdentityEmptyList ==
  (pc = "done" /\ userEmail = NoEmail) => (recommendations = <<>> /\ run.queries = 0)

\* C9: when every request of an invocation fails, it ends with an empty list.
C9_AllFailedEmptyList ==
  (Completed /\ run.queries > 0 /\ run.okReads = 0) => recommendations = <<>>

\* C10: after an invocation the list never holds entries of an earlier one: it
\* was set by this invocation, or it is empty.
C10_NothingRetained == pc = "done" => (run.wrote \/ recommendations = <<>>)

\* C6: 0 <= available_copies <= total_copies for every catalog entry.
C6_CopiesInRange ==
  \A i \in 1..Len(books) :
    0 <= books[i].available_copies /\ books[i].available_copies <= books[i].total_copies

\* C7: a borrower has at most one active record per book.
C7_OneActivePerBook ==
  \A i, j \in 1..Len(borrowed_books) :
    (/\ i # j
     /\ borrowed_books[i].user_email = borrowed_books[j].user_email
     /\ borrowed_books[i].book_isbn = borrowed_books[j].book_isbn)
      => (borrowed_books[i].returned \/ borrowed_books[j].returned)

\* The positions of the catalog entries with a copy left
AvailableRows == {j \in 1..Len(books) : books[j].available_copies > 0}

\* The list holds catalog entries as they are, none twice
ListsCatalogEntries ==
  /\ \A i \in 1..Len(recommendations) :
       \E j \in 1..Len(books) : BookView(books[j]) = recommendations[i]
  /\ \A i, k \in 1..Len(recommendations) :
       i # k => recommendations[i].isbn # recommendations[k].isbn

\* C11: for a borrower with no active record, when every request succeeds, the
\* list is the up-to-5 available catalog entries with the most available copies,
\* in descending order of available_copies; only the borrower's own records and
\* the popular books are queried, so no other borrower's record has a part in it.
C11_NoHistoryPopular ==
  (Produced /\ Unfailed /\ OwnActive(userEmail) = {})
    => /\ run.queries = 2
       /\ ListsCatalogEntries
       /\ Len(recommendations) = Min(MaxRecs, Cardinality(AvailableRows))
       /\ \A i \in 1..Len(recommendations) : recommendations[i].available_copies > 0
       /\ \A i, k \in 1..Len(recommendations) :
            i < k => recommendations[i].available_copies >= recommendations[k].available_copies
       /\ \A j \in AvailableRows :
            books[j].isbn \notin RecIsbns
              => books[j].available_copies
                   <= recommendations[Len(recommendations)].available_copies

\* C11's case: the borrower has no active record, another borrower has, a book
\* has no copy left, and more than 5 books are available
C11_Witness ==
  /\ Produced /\ Unfailed
  /\ OwnActive(userEmail) = {}
  /\ \E i \in 1..Len(borrowed_books) : ~borrowed_books[i].returned
  /\ \E j \in 1..Len(books) : books[j].available_copies = 0
  /\ Cardinality(AvailableRows) > MaxRecs
  /\ Len(recommendations) = MaxRecs

\* The positions of the active records
ActiveRecords == {i \in 1..Len(borrowed_books) : ~borrowed_books[i].returned}

\* The other borrowers with an active record for a book the borrower holds
Peers(email) ==
  {borrowed_books[i].user_email :
     i \in {k \in ActiveRecords : /\ borrowed_books[k].user_email # email
                                  /\ borrowed_books[k].book_isbn \in OwnActive(email)}}

\* The positions of the peers' active records for books the borrower does not hold
PeerRecords(email) ==
  {i \in ActiveRecords : /\ borrowed_books[i].user_email \in Peers(email)
                         /\ borrowed_books[i].book_isbn \notin OwnActive(email)}

\* The books of those records, and those of them with a copy left
PeerBooks(email) == {borrowed_books[i].book_isbn : i \in PeerRecords(email)}
OfferablePeerBooks(email) == {isbn \in PeerBooks(email) : AvailableCopies(isbn) > 0}

\* C12 as amended: when the peers' active records name at most 5 books outside
\* the borrower's own, every one of them with a copy left is in the list, and
\* none of the borrower's own books is.
C12_PeerBooksListed ==
  (Produced /\ Peers(userEmail) # {} /\ Cardinality(PeerBooks(userEmail)) <= MaxRecs)
    => /\ OfferablePeerBooks(userEmail) \subseteq RecIsbns
       /\ RecIsbns \cap OwnActive(userEmail) = {}

\* C12's case: a peer holds the borrower's book and others, some of them
\* available and one not
C12_Witness ==
  /\ Produced
  /\ Peers(userEmail) # {}
  /\ Cardinality(PeerBooks(userEmail)) <= MaxRecs
  /\ Cardinality(OfferablePeerBooks(userEmail)) >= 2
  /\ OfferablePeerBooks(userEmail) # PeerBooks(userEmail)

\* C12 as claimed: when at most 5 of the peers' other books are available,
\* every one of them is in the list, and the borrower's own books are not.
C12_AsClaimed ==
  (Produced /\ Peers(userEmail) # {}
            /\ Cardinality(OfferablePeerBooks(userEmail)) <= MaxRecs)
    => /\ OfferablePeerBooks(userEmail) \subseteq RecIsbns
       /\ RecIsbns \cap OwnActive(userEmail) = {}

\* The categories of the books the borrower holds
OwnCategories(email) ==
  {books[j].category : j \in {k \in 1..Len(books) : books[k].isbn \in OwnActive(email)}} \ {""}

\* The available catalog entries, other than the borrower's own, that share a
\* category with a book the borrower holds
SameCategoryBooks(email) ==
  {books[j].isbn : j \in {k \in AvailableRows : /\ books[k].isbn \notin OwnActive(email)
                                               /\ books[k].category \in OwnCategories(email)}}

\* C13: when the borrower holds books, no other borrower holds any of them,
\* and an available entry other than the borrower's own shares a category with
\* one of them, the list is not empty and made of such same-category entries.
C13_CategoryAffinity ==
  (Produced /\ Unfailed /\ OwnActive(userEmail) # {} /\ Peers(userEmail) = {}
            /\ SameCategoryBooks(userEmail) # {})
    => /\ recommendations # <<>>
       /\ RecIsbns \subseteq SameCategoryBooks(userEmail)

\* The authors of the books the borrower holds
OwnAuthors(email) ==
  {books[j].author : j \in {k \in 1..Len(books) : books[k].isbn \in OwnActive(email)}} \ {""}

\* The available catalog entries, other than the borrower's own, that share an
\* author with a book the borrower holds
SameAuthorBooks(email) ==
  {books[j].isbn : j \in {k \in AvailableRows : /\ books[k].isbn \notin OwnActive(email)
                                               /\ books[k].author \in OwnAuthors(email)}}

\* C14: when the peers hold books outside the borrower's own and none of them
\* has a copy left, no peer book is in the list and the list is that of the
\* first tier that has entries: same category, else same author, else the
\* available entries with the most copies.
C14_UnavailablePeersFallBack ==
  (Produced /\ Unfailed /\ PeerBooks(userEmail) # {} /\ OfferablePeerBooks(userEmail) = {})
    => /\ RecIsbns \cap PeerBooks(userEmail) = {}
       /\ ListsCatalogEntries
       /\ run.queries > Cardinality(MainReads)
       /\ IF SameCategoryBooks(userEmail) # {}
          THEN recommendations # <<>> /\ RecIsbns \subseteq SameCategoryBooks(userEmail)
          ELSE IF SameAuthorBooks(userEmail) # {}
          THEN recommendations # <<>> /\ RecIsbns \subseteq SameAuthorBooks(userEmail)
          ELSE /\ RecIsbns \subseteq Candidates(userEmail)
               /\ Len(recommendations) = Min(MaxRecs, Cardinality(Candidates(userEmail)))

\* C14's case: the peers' only other book has no copy left, no entry shares a
\* category with the borrower's books, and the author tier supplies the list
C14_Witness ==
  /\ Produced /\ Unfailed
  /\ PeerBooks(userEmail) # {}
  /\ OfferablePeerBooks(userEmail) = {}
  /\ SameCategoryBooks(userEmail) = {}
  /\ SameAuthorBooks(userEmail) # {}
  /\ RecIsbns = SameAuthorBooks(userEmail)

\* The number of the peers' active records for a book
PeerCount(email, isbn) ==
  Cardinality({i \in PeerRecords(email) : borrowed_books[i].book_isbn = isbn})

\* The number of peers that hold a book
PeerHolders(email, isbn) ==
  Cardinality({borrowed_books[i].user_email :
                 i \in {k \in PeerRecords(email) : borrowed_books[k].book_isbn = isbn}})

\* The position of the first of the peers' active records for a book
FirstSeen(email, isbn) ==
  CHOOSE i \in PeerRecords(email) :
    /\ borrowed_books[i].book_isbn = isbn
    /\ \A k \in PeerRecords(email) : borrowed_books[k].book_isbn = isbn => i <= k

\* C20: the peers the ranking reads the records of are exactly the distinct
\* borrowers other than the caller with an active record for a book of the
\* caller's active set, each once and never the caller; the caller's own set is
\* that of the active records; returned records have no part in either, nor in
\* the books that are ranked.
C20_PeerSet ==
  /\ pc \in {"similarBorrows", "otherUserBorrows", "recommendedBooks"}
       => /\ Range(lr.userBorrowedISBNs) = OwnActive(userEmail)
          /\ OwnActive(userEmail) # {}
  /\ pc \in {"otherUserBorrows", "recommendedBooks"}
       => /\ Range(lr.otherUserEmails) = Peers(userEmail)
          /\ Peers(userEmail) # {}
          /\ userEmail \notin Range(lr.otherUserEmails)
          /\ \A i, k \in 1..Len(lr.otherUserEmails) :
               i # k => lr.otherUserEmails[i] # lr.otherUserEmails[k]
  /\ pc = "recommendedBooks" => Range(lr.sortedISBNs) \subseteq PeerBooks(userEmail)
  /\ (Produced /\ Unfailed /\ Peers(userEmail) # {}) => run.queries >= 3

\* C20's case: the peers are read while a borrower who is not a peer has a
\* returned record for a book of the caller, and the caller has a returned
\* record for a book that another borrower holds
C20_Witness ==
  /\ pc = "otherUserBorrows"
  /\ \E i \in 1..Len(borrowed_books) :
       /\ borrowed_books[i].returned
       /\ borrowed_books[i].book_isbn \in OwnActive(userEmail)
       /\ borrowed_books[i].user_email \notin Peers(userEmail) \cup {userEmail}
  /\ \E i \in 1..Len(borrowed_books), k \in ActiveRecords :
       /\ borrowed_books[i].returned
       /\ borrowed_books[i].user_email = userEmail
       /\ borrowed_books[k].book_isbn = borrowed_books[i].book_isbn
       /\ borrowed_books[k].user_email \in Peers(userEmail)

\* C19: the ranked ISBNs are in descending order of the number of the peers'
\* active records for the book, a borrower's second record for a book counting
\* again, and a book cut from the ranking has no more records than the last
\* one kept.
C19_RawRecordCount ==
  pc = "recommendedBooks"
    => /\ \A i, k \in 1..Len(lr.sortedISBNs) :
            i < k => PeerCount(userEmail, lr.sortedISBNs[i])
                       >= PeerCount(userEmail, lr.sortedISBNs[k])
       /\ \A isbn \in PeerBooks(userEmail) \ Range(lr.sortedISBNs) :
            PeerCount(userEmail, isbn)
              <= PeerCount(userEmail, lr.sortedISBNs[Len(lr.sortedISBNs)])

\* C19's case: a book that one peer holds twice is ranked before a book that
\* one peer holds once and that occurs first
C19_Witness ==
  /\ pc = "recommendedBooks"
  /\ \E i, k \in 1..Len(lr.sortedISBNs) :
       /\ i < k
       /\ PeerCount(userEmail, lr.sortedISBNs[i]) > PeerCount(userEmail, lr.sortedISBNs[k])
       /\ PeerHolders(userEmail, lr.sortedISBNs[i]) = PeerHolders(userEmail, lr.sortedISBNs[k])
       /\ FirstSeen(userEmail, lr.sortedISBNs[k]) < FirstSeen(userEmail, lr.sortedISBNs[i])
       /\ ~IsArrayIndex(lr.sortedISBNs[i]) /\ ~IsArrayIndex(lr.sortedISBNs[k])

\* The order of the keys of a JavaScript object among books with as many
\* records: array-index keys ascending, then the others as first seen
KeyBefore(email, x, y) ==
  IF IsArrayIndex(x) /\ IsArrayIndex(y) THEN NumLess(x, y)
  ELSE IF IsArrayIndex(x) \/ IsArrayIndex(y) THEN IsArrayIndex(x)
  ELSE FirstSeen(email, x) < FirstSeen(email, y)

\* x is ranked before y: more records, or as many and the earlier key
RankedBefore(email, x, y) ==
  \/ PeerCount(email, x) > PeerCount(email, y)
  \/ PeerCount(email, x) = PeerCount(email, y) /\ KeyBefore(email, x, y)

\* x is ranked before y when ties keep the order of first occurrence
RankedBeforeAsSeen(email, x, y) ==
  \/ PeerCount(email, x) > PeerCount(email, y)
  \/ PeerCount(email, x) = PeerCount(email, y) /\ FirstSeen(email, x) < FirstSeen(email, y)

\* The peer books with a copy left among the first MaxRecs of a ranking
TopOffered(email, Before(_, _, _)) ==
  {x \in OfferablePeerBooks(email) :
     Cardinality({y \in PeerBooks(email) : Before(email, y, x)}) < MaxRecs}

\* C18 as amended: the peer-derived entries open the list, in descending order
\* of frequency; among equal frequencies the ISBNs that are array indices of a
\* JavaScript object come first, ascending, and the others keep the order of
\* first occurrence; the fallback entries follow.
C18_PeerOrder ==
  (Produced /\ Unfailed /\ Peers(userEmail) # {})
    => LET top == TopOffered(userEmail, RankedBefore)
           n == Cardinality(top)
       IN /\ Len(recommendations) >= n
          /\ \A i \in 1..n : recommendations[i].isbn \in top
          /\ \A i, k \in 1..n :
               i < k => RankedBefore(userEmail, recommendations[i].isbn, recommendations[k].isbn)
          /\ \A i \in (n + 1)..Len(recommendations) : recommendations[i].isbn \notin top

\* C18's case: peer entries of different and of equal frequency, a digit-only
\* ISBN among the equal ones, and a fallback entry after them
C18_Witness ==
  /\ Produced /\ Unfailed /\ Peers(userEmail) # {}
  /\ LET top == TopOffered(userEmail, RankedBefore)
         n == Cardinality(top)
     IN /\ n >= 3
        /\ Len(recommendations) > n
        /\ PeerCount(userEmail, recommendations[1].isbn)
             > PeerCount(userEmail, recommendations[2].isbn)
        /\ \E i \in 2..(n - 1) :
             /\ PeerCount(userEmail, recommendations[i].isbn)
                  = PeerCount(userEmail, recommendations[i + 1].isbn)
             /\ IsArrayIndex(recommendations[i].isbn)

\* C18 as claimed: equal frequencies keep the order of first occurrence
C18_AsClaimed ==
  (Produced /\ Unfailed /\ Peers(userEmail) # {})
    => LET top == TopOffered(userEmail, RankedBeforeAsSeen)
           n == Cardinality(top)
       IN /\ Len(recommendations) >= n
          /\ \A i \in 1..n : recommendations[i].isbn \in top
          /\ \A i, k \in 1..n :
               i < k => RankedBeforeAsSeen(userEmail, recommendations[i].isbn,
                                           recommendations[k].isbn)
          /\ \A i \in (n + 1)..Len(recommendations) : recommendations[i].isbn \notin top

\* C15: when an invocation for a borrower is answered as the last rendered
\* invocation for the same borrower was, on stores that were not written, it
\* leaves the same list in the same order.
C15_SameAnswersSameList ==
  (Completed /\ userEmail \in DOMAIN earlier
             /\ run.answers = earlier[userEmail].answers)
    => recommendations = earlier[userEmail].list

\* The reminders are prepared
Prepared == job.pc \in {"send", "returned"}

\* The unreturned records that are overdue and due soon at the time t
OverdueAt(t) ==
  {i \in 1..Len(borrowed_books) :
     ~borrowed_books[i].returned /\ borrowed_books[i].due_date < t}
DueSoonAt(t) ==
  {i \in 1..Len(borrowed_books) :
     /\ ~borrowed_books[i].returned
     /\ t <= borrowed_books[i].due_date
     /\ borrowed_books[i].due_date <= t + 5 * TicksPerDay}

\* The rows name each of the records ids once
ListsEach(rows, ids) ==
  /\ {rows[k].id : k \in 1..Len(rows)} = ids
  /\ Len(rows) = Cardinality(ids)

\* C16: when every request succeeds, the reminders prepared are one for each
\* unreturned record that is overdue at the time of the call, marked overdue,
\* and one for each unreturned record due within 5 days of it, not marked;
\* none for a returned record or one due later.
C16_OneReminderEach ==
  (Prepared /\ job.noData = {})
    => LET n == Len(job.overdueData)
       IN /\ ListsEach(job.overdueData, OverdueAt(job.today))
          /\ ListsEach(job.dueSoonData, DueSoonAt(job.today))
          /\ Len(job.allReminders) = n + Len(job.dueSoonData)
          /\ \A k \in 1..n :
               /\ job.allReminders[k].isOverdue
               /\ job.allReminders[k].dueDate = job.overdueData[k].due_date
               /\ job.allReminders[k].studentEmail = job.overdueData[k].user_email
          /\ \A k \in 1..Len(job.dueSoonData) :
               /\ ~job.allReminders[n + k].isOverdue
               /\ job.allReminders[n + k].dueDate = job.dueSoonData[k].due_date
               /\ job.allReminders[n + k].studentEmail = job.dueSoonData[k].user_email

\* The invocations of handleLogin that returned after setting the role: the
\* credentials were accepted, the account has a row in users, and the role
\* selected when Login was clicked is the role of the row, in any case
Granting ==
  {s \in LoginSlots :
     /\ login[s].pc = "idle"
     /\ \E a \in AuthUsers :
          /\ a.email = login[s].email /\ a.password = login[s].password
          /\ a.id = login[s].user
     /\ login[s].userData \in UsersTable
     /\ login[s].userData.id = login[s].user
     /\ ToLowerCase(login[s].selectedRole) = ToLowerCase(login[s].userData.role)}

\* C17: the role is set and the three keys are written only by an invocation
\* of handleLogin that was authenticated, found the row of the account and was
\* called with the role of the row selected; the role set and the keys written
\* are those of the row; otherwise the role is null and no key is written.
C17_RoleOnlyWhenMatched ==
  IF role = Null
  THEN localStorage = noStorage
  ELSE \E s \in Granting :
         /\ role = login[s].userData.role
         /\ localStorage = [userEmail |-> login[s].userData.email,
                            userRole |-> login[s].userData.role,
                            userId |-> login[s].user]

\* C17's case: an invocation has set the role of the account's row, and one
\* called with the other role selected shows the mismatch alert
C17_Witness ==
  /\ role # Null
  /\ localStorage.userRole = role
  /\ \E s \in LoginSlots :
       /\ login[s].pc = "alert"
       /\ login[s].said = "Role mismatch"
       /\ login[s].userData \in UsersTable
       /\ login[s].selectedRole # login[s].userData.role

\* C21: the list never holds an ISBN twice; while the tiers fill up a peer
\* ranking, they exclude the ISBNs of the peer entries and the borrower's own,
\* and what they add is none of either.
C21_NoDuplicates ==
  /\ \A i, k \in 1..Len(recommendations) :
       i # k => recommendations[i].isbn # recommendations[k].isbn
  /\ (pc \in TierReads /\ ph.caller = "fill")
       => /\ ph.sortedBooks # <<>>
          /\ ExcludeSet(ph.userBorrowedISBNs, ph.excludeISBNs)
               = OwnActive(userEmail) \cup Range(Isbns(ph.sortedBooks))
  /\ (Produced /\ run.failedRead = "none" /\ PeerRanked(userEmail) # {})
       => RecIsbns \cap OwnActive(userEmail) = {}

\* C21's case: a peer entry that shares a category with a book of the
\* borrower opens the list, and the tiers have added entries after it
C21_Witness ==
  /\ Produced /\ Unfailed
  /\ Len(recommendations) >= 2
  /\ recommendations[1].isbn \in PeerRanked(userEmail)
  /\ recommendations[1].isbn \in SameCategoryBooks(userEmail)
  /\ recommendations[Len(recommendations)].isbn \notin PeerRanked(userEmail)

\* What the category tier and the author tier of the running call yield: the
\* rows of their reads that are not excluded
CategoryYield ==
  Filtered(QueryCategoryBooks(ph.categories), ExcludeSet(ph.userBorrowedISBNs, ph.excludeISBNs))
AuthorYield ==
  Filtered(QueryAuthorBooks(ph.authors), ExcludeSet(ph.userBorrowedISBNs, ph.excludeISBNs))

\* The step's request was answered with data
Answered == run'.answers[Len(run'.answers)] = "ok"

\* The entries the step puts in the list after the peer entries
TierEntries ==
  {recommendations'[i].isbn : i \in (Len(ph.sortedBooks) + 1)..Len(recommendations')}

\* C22: the tiers are consulted in the order category, author, popularity:
\* the author tier is read only after the category tier yielded no usable entry
\* (or there was no category to read), the popular tier only after neither
\* yielded one; the entries a tier supplies are entries of its own yield.
C22_TierOrder ==
  [][/\ pc' = "categoryBooks" => pc = "userBooks"
     /\ pc' = "authorBooks" =>
          \/ pc = "userBooks" /\ ph'.categories = <<>>
          \/ pc = "categoryBooks" /\ (~Answered \/ CategoryYield = <<>>)
     /\ (pc' = "popularBooks" /\ pc # "popularBooks") =>
          \/ pc \in MainReads /\ ph'.userBorrowedISBNs = <<>>
          \/ pc = "userBooks" /\ ph'.categories = <<>> /\ ph'.authors = <<>>
          \/ pc = "categoryBooks" /\ ph.authors = <<>> /\ (~Answered \/ CategoryYield = <<>>)
          \/ pc = "authorBooks" /\ (~Answered \/ AuthorYield = <<>>)
     /\ (pc = "categoryBooks" /\ pc' = "done" /\ Answered) =>
          /\ TierEntries \subseteq Range(Isbns(CategoryYield))
          /\ CategoryYield # <<>>
     /\ (pc = "authorBooks" /\ pc' = "done" /\ Answered) =>
          /\ TierEntries \subseteq Range(Isbns(AuthorYield))
          /\ AuthorYield # <<>>
    ]_vars

\* C22's case: a borrower without peers whose categories have no other
\* available entry got the entries that share an author with their books
C22_Witness ==
  /\ Produced /\ Unfailed
  /\ OwnCategories(userEmail) # {}
  /\ SameCategoryBooks(userEmail) = {}
  /\ SameAuthorBooks(userEmail) # {}
  /\ recommendations # <<>>
  /\ RecIsbns \subseteq SameAuthorBooks(userEmail)
  /\ run.queries = 7

\* C23: once an invocation of loadRecommendations has completed, on any of its
\* paths, loading is false, so that the list is displayed.
C23_LoadingEnds == Completed => ~loading

\* No borrow and no return is in progress
NoneInProgress == \A s \in Sessions : hpc[s] \in {"idle", "alert"}

\* The active records of the book isbn
ActiveOf(isbn) == {i \in ActiveRecords : borrowed_books[i].book_isbn = isbn}

\* C24: whenever no borrow and no return is in progress, every catalog entry
\* has available_copies + its active records = total_copies, and never more
\* active records than total_copies, whatever the interleaving was.
C24_CopiesConserved ==
  /\ NoneInProgress =>
       \A j \in 1..Len(books) :
         books[j].available_copies + Cardinality(ActiveOf(books[j].isbn))
           = books[j].total_copies
  /\ \A j \in 1..Len(books) : Cardinality(ActiveOf(books[j].isbn)) <= books[j].total_copies

\* The positions of handleReturnBook
ReturnPcs == {"markReturned", "readCopies", "writeCopies"}

\* C25: handleReturnBook invoked for a record that is already returned changes
\* no available_copies, at any of its steps.
C25_ReturnIdempotent ==
  [][\A s \in Sessions :
       (hpc[s] \in ReturnPcs /\ hpc'[s] # hpc[s] /\ frame[s].alreadyReturned)
         => books' = books]_vars

\* The alerts with which borrowBook reports a failure
BorrowFailures ==
  {"Please enter or scan an ISBN!", "Book not found!", "Book not available!",
   "Error borrowing book", "Error updating book availability", "unexpected error"}

\* C26: borrowBook reports a failure only while it has written nothing: not
\* after its record was inserted; and when it ends well, the step that
\* completes it has lowered the book's available_copies by exactly one.
C26_FailureChangesNothing ==
  [][\A u \in Users :
       /\ (hpc[u] \in BorrowPcs /\ hpc'[u] = "alert" /\ alert'[u] \in BorrowFailures)
            => hpc[u] # "update"
       /\ (hpc[u] = "update" /\ hpc'[u] = "alert" /\ alert'[u] \notin BorrowFailures)
            => \A j \in 1..Len(books) :
                 books'[j].available_copies =
                   IF books[j].isbn = frame[u].actualISBN
                   THEN books[j].available_copies - 1 ELSE books[j].available_copies]_vars

\* C27: sendBulkReminders attempts the reminders one after the other whatever
\* failed before: at every point success + failed is the number attempted and
\* there is one error message per failure; checkAndSendReminders returns
\* after all were attempted, with sentCount + failedCount = overdueCount +
\* dueSoonCount = the number of reminders.
C27_EveryReminderCounted ==
  /\ job.success + job.failed = job.sent
  /\ Len(job.errors) = job.failed
  /\ job.sent <= Len(job.allReminders)
  /\ job.pc = "send" => job.sent < Len(job.allReminders)
  /\ (job.pc = "returned" /\ job.result # <<>>) =>
       /\ job.sent = Len(job.allReminders)
       /\ job.result.sentCount = job.success
       /\ job.result.failedCount = job.failed
       /\ job.result.sentCount + job.result.failedCount
            = job.result.overdueCount + job.result.dueSoonCount
       /\ job.result.overdueCount + job.result.dueSoonCount = Len(job.allReminders)

\* C27's case: an overdue notice and a due-soon reminder were attempted, one
\* was sent and one failed
C27_Witness ==
  /\ job.pc = "returned" /\ job.result # <<>>
  /\ job.result.overdueCount >= 1 /\ job.result.dueSoonCount >= 1
  /\ job.result.sentCount >= 1 /\ job.result.failedCount >= 1

C29_OverdueGetsNotice ==
  \A k \in 1..Len(lib.individual) :
    lib.individual[k].dueDate < lib.individual[k].today => lib.individual[k].isOverdue

====
